---- MODULE Spec2Model ----
(***************************************************************************)
(* State-machine model of the synchronized playback engine of sendspin:    *)
(* sendspin/audio.py (AudioPlayer) and the handler that drives it,         *)
(* sendspin/audio_connector.py (AudioStreamHandler).                       *)
(*                                                                         *)
(* Two execution contexts are modelled:                                    *)
(*   - the event-loop thread ("main"): submit(), set_volume() and the      *)
(*     handler's reactions to audio chunks and stream_start messages;      *)
(*   - the audio driver's callback thread ("cb"): _audio_callback().       *)
(* Both run Python code under the interpreter lock, so a thread switch can *)
(* happen between any two attribute accesses.  Each handler is cut into    *)
(* steps at the accesses to the attributes the other thread also uses.     *)
(*                                                                         *)
(* PCM byte strings are modelled as run lists: a run [src, off, len] is    *)
(* `len` consecutive bytes, starting at byte `off`, of the payload of the  *)
(* src-th submit() call; src = 0 is a run of zero bytes (silence).  The    *)
(* representation is kept canonical (no empty run, adjacent runs merged),  *)
(* so two byte strings are equal iff their run lists are equal.            *)
(***************************************************************************)
EXTENDS Integers, Sequences, FiniteSets, TLC

(***************************************************************************)
(* Bounds of the model.                                                    *)
(***************************************************************************)
MaxSubmits == 4
MaxCallbacks == 2
MaxTicks == 1
MaxVolumeCalls == 1
\* in the specification of one session: steps of the clock, stream_start
\* messages and changes of format
MaxStartTicks == 2
MaxStreamStarts == 1
MaxFormatChanges == 1
\* calls of the stream handler's set_volume, cleanup and player creation
MaxHandlerCalls == 5
\* calls of the signal reporter's update, steps of the clock between them,
\* calls of update_vad and reset
MaxReporterUpdates == 5
MaxReporterTicks == 4
MaxReporterResets == 1
MaxStreamEnds == 1
MaxStreamClears == 1
MaxDecodes == 2
\* a capacity for the input queue; the source gives it none
\* (asyncio.Queue() has maxsize 0)
QueueBound == 5
\* frames requested by the driver per callback
CallbackFrames == 3
\* ... and per callback long enough for a correction event (the shortest
\* cadence is one event every 25 frames)
LongCallbackFrames == 30
\* loop.time() at construction, the step of the clock, and the latency the
\* driver reports between the loop clock and the DAC clock (microseconds)
InitialLoopTimeUs == 10000000
TickUs == 2000000
DacLatencyUs == 100000
\* the clock mapper's offset at construction:
\* compute_client_time(t) = t + ClockOffsetUs
ClockOffsetUs == 11000000
\* time-synchronisation updates that move the offset
MaxSyncs == 2

(***************************************************************************)
(* Program constants (class attributes of AudioPlayer).                    *)
(***************************************************************************)
MICROSECONDS_PER_SECOND == 1000000
CORRECTION_DEADBAND_US == 2000
REANCHOR_THRESHOLD_US == 500000
REANCHOR_COOLDOWN_US == 5000000
EARLY_START_THRESHOLD_US == 700000
START_TIME_UPDATE_THRESHOLD_US == 5000
\* _MAX_SPEED_CORRECTION = 0.04, kept as the exact fraction 4/100
MAX_SPEED_CORRECTION_NUM == 4
MAX_SPEED_CORRECTION_DEN == 100
\* _CORRECTION_TARGET_SECONDS = 2.0
CORRECTION_TARGET_SECONDS == 2
\* _DAC_PER_LOOP_MIN = 0.999 and _DAC_PER_LOOP_MAX = 1.001, as n/1000
DAC_PER_LOOP_MIN_MILLI == 999
DAC_PER_LOOP_MAX_MILLI == 1001
\* collections.deque(maxlen=100)
CALIBRATIONS_MAXLEN == 100
\* Python's None for the optional integer attributes (all of them hold
\* non-negative values when set)
None == -1

Min(a, b) == IF a <= b THEN a ELSE b
Max(a, b) == IF a >= b THEN a ELSE b
Abs(a) == IF a >= 0 THEN a ELSE -a

RECURSIVE GCD(_, _)
GCD(a, b) == IF b = 0 THEN a ELSE GCD(b, a % b)

(***************************************************************************)
(* Python evaluates (x * a) // b on unbounded integers.  FloorMulDiv and   *)
(* CeilMulDiv compute floor(x*a/b) and ceil(x*a/b) for x >= 0 with the     *)
(* same value, splitting x so that no intermediate product leaves the      *)
(* 32-bit range of the model checker.                                      *)
(***************************************************************************)
FloorMulDiv(x, a, b) ==
    LET g == GCD(a, b)
        a1 == a \div g
        b1 == b \div g
    IN  (x \div b1) * a1 + ((x % b1) * a1) \div b1

CeilMulDiv(x, a, b) ==
    LET g == GCD(a, b)
        a1 == a \div g
        b1 == b \div g
    IN  (x \div b1) * a1 + ((x % b1) * a1 + b1 - 1) \div b1

\* Python's round(): a / d rounded to the nearest integer, ties to even (d > 0)
RoundDiv(a, d) ==
    LET q == a \div d
        r == a % d
    IN  IF 2 * r < d THEN q
        ELSE IF 2 * r > d THEN q + 1
        ELSE IF q % 2 = 0 THEN q ELSE q + 1

(***************************************************************************)
(* Byte strings as canonical run lists.                                    *)
(***************************************************************************)
Run(src, off, len) == [src |-> src, off |-> off, len |-> len]

\* b"\x00" * n
Zeros(n) == IF n <= 0 THEN << >> ELSE << Run(0, 0, n) >>

\* the n payload bytes of the id-th submit() call
PayloadBytes(id, n) == IF n <= 0 THEN << >> ELSE << Run(id, 0, n) >>

RECURSIVE BLen(_)
BLen(b) == IF b = << >> THEN 0 ELSE Head(b).len + BLen(Tail(b))

\* a + b
Cat(a, b) ==
    IF a = << >> THEN b
    ELSE IF b = << >> THEN a
    ELSE LET l == a[Len(a)]
             h == Head(b)
         IN  IF l.src = h.src /\ (l.src = 0 \/ l.off + l.len = h.off)
             THEN SubSeq(a, 1, Len(a) - 1)
                  \o << Run(l.src, l.off, l.len + h.len) >>
                  \o Tail(b)
             ELSE a \o b

\* b[:n]
RECURSIVE Take(_, _)
Take(b, n) ==
    IF n <= 0 \/ b = << >> THEN << >>
    ELSE IF Head(b).len <= n
         THEN << Head(b) >> \o Take(Tail(b), n - Head(b).len)
         ELSE << Run(Head(b).src, Head(b).off, n) >>

\* b[n:]
RECURSIVE Drop(_, _)
Drop(b, n) ==
    IF n <= 0 \/ b = << >> THEN b
    ELSE IF Head(b).len <= n
         THEN Drop(Tail(b), n - Head(b).len)
         ELSE << Run(Head(b).src,
                     IF Head(b).src = 0 THEN 0 ELSE Head(b).off + n,
                     Head(b).len - n) >> \o Tail(b)

\* b[i:j] for 0 <= i
Slice(b, i, j) == Take(Drop(b, i), j - i)

\* TRUE iff every byte of b is zero
AllZero(b) == \A k \in 1..Len(b) : b[k].src = 0


(***************************************************************************)
(* State.                                                                  *)
(*   player  the attributes of the AudioPlayer object                      *)
(*   main    the event-loop thread: its position in submit() or            *)
(*           set_volume() and the locals it holds there                    *)
(*   cb      the audio thread: its position in _audio_callback(), its      *)
(*           locals, and the output buffer it fills; `events` counts the   *)
(*           drops and inserts of the callback, `starved` tells that it    *)
(*           found no input when it began, `played` that the state was     *)
(*           PLAYING after its start gate; bytes_to_read, chunk_len and    *)
(*           bytes_written are the locals of _read_input_frames_bulk       *)
(*           where its loop is followed pass by pass                       *)
(*   now     loop.time() in microseconds                                   *)
(*   used    how many submits, callbacks, clock ticks, set_volume calls,   *)
(*           stream_start messages and format changes have happened        *)
(*           (bounded by the Max* definitions)                             *)
(*   obs     observations recorded for the properties: the last re-anchor  *)
(*           times, the (level, muted) pairs set_volume established, what  *)
(*           the last submit() enqueued, the end << submit, byte >> of     *)
(*           the last payload byte a callback wrote, when the first        *)
(*           payload sample was written, how many output streams the       *)
(*           players have opened in the driver and not closed, how often   *)
(*           a submit() replaced the scheduled start, the chunk timestamp  *)
(*           the server cursor was last set to and the input frames read   *)
(*           since, the roles of the last stream_end or stream_clear, how  *)
(*           many clears had run when a chunk was last taken from the      *)
(*           queue                                                         *)
(* handler   the stream handler: _stream_active and the lifecycle events   *)
(*           it has fired                                                  *)
(*   clock_offset_us  the offset of the clock mapper, as the client's time *)
(*           synchronisation currently estimates it                        *)
(*   decoder the FlacDecoder object (sendspin/decoder.py) and the outcome  *)
(*           of its last decode()                                          *)
(*   reporter  the SourceSignalReporter object (sendspin/source_utils.py)  *)
(*           and what it has sent                                          *)
(***************************************************************************)
VARIABLES player, main, cb, now, used, obs, clock_offset_us, handler, decoder, reporter

vars == << player, main, cb, now, used, obs, clock_offset_us, handler, decoder, reporter >>

(***************************************************************************)
(* The clock mapper handed to the player (compute_client_time and          *)
(* compute_server_time): the current offset, mutually inverse.             *)
(***************************************************************************)
compute_client_time(server_us) == server_us + clock_offset_us
compute_server_time(client_us) == client_us - clock_offset_us

\* class PlaybackState
INITIALIZING == "INITIALIZING"
WAITING_FOR_START == "WAITING_FOR_START"
PLAYING == "PLAYING"
REANCHORING == "REANCHORING"

\* _QueuedChunk, and the value standing for "no current chunk"
QueuedChunk(ts, data) == [server_timestamp_us |-> ts, audio_data |-> data]
NoChunk == [server_timestamp_us |-> None, audio_data |-> << >>]

(***************************************************************************)
(* AudioPlayer.__init__.  Attributes that are only logged or never read    *)
(* (_closed, _first_real_chunk, _underrun_count, _last_buffer_warning_us,  *)
(* the *_since_log and _callback_* counters) are left out; the Kalman      *)
(* filter object is represented by its cached output.                      *)
(***************************************************************************)
NewPlayer ==
    [ format_sample_rate |-> 0,
      format_frame_size |-> 0,
      queue |-> << >>,
      stream_open |-> FALSE,
      stream_started |-> FALSE,
      volume |-> 100,
      muted |-> FALSE,
      current_chunk |-> NoChunk,
      current_chunk_offset |-> 0,
      expected_next_timestamp |-> None,
      queued_duration_us |-> 0,
      dac_loop_calibrations |-> << >>,
      last_known_playback_position_us |-> 0,
      last_dac_calibration_time_us |-> 0,
      playback_state |-> INITIALIZING,
      scheduled_start_loop_time_us |-> None,
      scheduled_start_dac_time_us |-> None,
      server_ts_cursor_us |-> 0,
      server_ts_cursor_remainder |-> 0,
      first_server_timestamp_us |-> None,
      early_start_suspect |-> FALSE,
      has_reanchored |-> FALSE,
      insert_every_n_frames |-> 0,
      drop_every_n_frames |-> 0,
      frames_until_next_insert |-> 0,
      frames_until_next_drop |-> 0,
      last_output_frame |-> << >>,
      sync_error_filtered_us |-> 0,
      last_reanchor_loop_time_us |-> 0,
      clear_requested |-> FALSE ]

\* AudioPlayer.set_format: the old stream is closed, a new one opened
set_format(p, sample_rate, frame_size) ==
    [p EXCEPT !.format_sample_rate = sample_rate,
              !.format_frame_size = frame_size,
              !.stream_started = FALSE,
              !.stream_open = TRUE]

\* AudioPlayer.clear
clear(p) ==
    [p EXCEPT !.clear_requested = FALSE,
              !.queue = << >>,
              !.playback_state = INITIALIZING,
              !.current_chunk = NoChunk,
              !.current_chunk_offset = 0,
              !.expected_next_timestamp = None,
              !.queued_duration_us = 0,
              !.dac_loop_calibrations = << >>,
              !.last_known_playback_position_us = 0,
              !.last_dac_calibration_time_us = 0,
              !.scheduled_start_loop_time_us = None,
              !.scheduled_start_dac_time_us = None,
              !.server_ts_cursor_us = 0,
              !.server_ts_cursor_remainder = 0,
              !.first_server_timestamp_us = None,
              !.early_start_suspect = FALSE,
              !.has_reanchored = FALSE,
              !.insert_every_n_frames = 0,
              !.drop_every_n_frames = 0,
              !.frames_until_next_insert = 0,
              !.frames_until_next_drop = 0,
              !.last_output_frame = << >>,
              !.sync_error_filtered_us = 0,
              !.last_reanchor_loop_time_us = 0]

\* (frames * 1_000_000) // sample_rate
FramesToUs(frames, sample_rate) ==
    FloorMulDiv(frames, MICROSECONDS_PER_SECOND, sample_rate)

\* (us * sample_rate) // 1_000_000
UsToFrames(us, sample_rate) ==
    FloorMulDiv(us, sample_rate, MICROSECONDS_PER_SECOND)

\* (us * sample_rate + 999_999) // 1_000_000
UsToFramesCeil(us, sample_rate) ==
    CeilMulDiv(us, sample_rate, MICROSECONDS_PER_SECOND)

(***************************************************************************)
(* The read path of the callback.  Each method is a composition of         *)
(* operators, one per stretch of straight-line code, so that every         *)
(* intermediate player value is an operator's argument.                    *)
(***************************************************************************)
\* _advance_server_cursor_frames with the carry assigned to the cursor
\* ("=" for "+=" at line 693)
advance_server_cursor_frames_assign(p, frames) ==
    IF p.format_sample_rate = 0 \/ frames <= 0 THEN p
    ELSE IF p.server_ts_cursor_remainder + frames * MICROSECONDS_PER_SECOND
               >= p.format_sample_rate
    THEN [p EXCEPT
            !.server_ts_cursor_remainder =
                (@ + frames * MICROSECONDS_PER_SECOND) % p.format_sample_rate,
            !.server_ts_cursor_us =
                (p.server_ts_cursor_remainder + frames * MICROSECONDS_PER_SECOND)
                    \div p.format_sample_rate]
    ELSE [p EXCEPT !.server_ts_cursor_remainder = @ + frames * MICROSECONDS_PER_SECOND]

\* _advance_server_cursor_frames without the carry: each advance truncated
advance_server_cursor_frames_truncating(p, frames) ==
    IF p.format_sample_rate = 0 \/ frames <= 0 THEN p
    ELSE [p EXCEPT !.server_ts_cursor_us =
                       @ + (frames * MICROSECONDS_PER_SECOND) \div p.format_sample_rate]

\* AudioPlayer._advance_server_cursor_frames
advance_server_cursor_frames(p, frames) ==
    IF p.format_sample_rate = 0 \/ frames <= 0 THEN p
    ELSE IF p.server_ts_cursor_remainder + frames * MICROSECONDS_PER_SECOND
               >= p.format_sample_rate
    THEN [p EXCEPT
            !.server_ts_cursor_remainder =
                (@ + frames * MICROSECONDS_PER_SECOND) % p.format_sample_rate,
            !.server_ts_cursor_us =
                @ + (p.server_ts_cursor_remainder + frames * MICROSECONDS_PER_SECOND)
                        \div p.format_sample_rate]
    ELSE [p EXCEPT !.server_ts_cursor_remainder = @ + frames * MICROSECONDS_PER_SECOND]

\* AudioPlayer._advance_finished_chunk
advance_finished_chunk(p) ==
    IF p.current_chunk = NoChunk THEN p
    ELSE [p EXCEPT
            !.queued_duration_us =
                Max(0, @ - FramesToUs(BLen(p.current_chunk.audio_data)
                                          \div p.format_frame_size,
                                      p.format_sample_rate)),
            !.current_chunk = NoChunk,
            !.current_chunk_offset = 0]

\* "if self._current_chunk_offset >= len(chunk_data): _advance_finished_chunk()"
advance_if_finished(p) ==
    IF p.current_chunk_offset >= BLen(p.current_chunk.audio_data)
    THEN advance_finished_chunk(p)
    ELSE p

\* _initialize_current_chunk taking the newest chunk of the queue
initialize_current_chunk_newest(p) ==
    [p EXCEPT !.queue = SubSeq(@, 1, Len(@) - 1),
              !.current_chunk = p.queue[Len(p.queue)],
              !.current_chunk_offset = 0,
              !.server_ts_cursor_us =
                  IF @ = 0 THEN p.queue[Len(p.queue)].server_timestamp_us ELSE @]

\* AudioPlayer._initialize_current_chunk (the queue is not empty)
initialize_current_chunk(p) ==
    [p EXCEPT !.queue = Tail(@),
              !.current_chunk = Head(p.queue),
              !.current_chunk_offset = 0,
              !.server_ts_cursor_us =
                  IF @ = 0 THEN Head(p.queue).server_timestamp_us ELSE @]

\* "if self._current_chunk is None: self._initialize_current_chunk()"
ensure_current_chunk(p) ==
    IF p.current_chunk = NoChunk THEN initialize_current_chunk(p) ELSE p

\* the frame p's current chunk holds at offset `start`, zero-padded
frame_at(p, start) ==
    Cat(Slice(p.current_chunk.audio_data, start, start + p.format_frame_size),
        Zeros(p.format_frame_size
                  - Min(p.format_frame_size, BLen(p.current_chunk.audio_data) - start)))

\* AudioPlayer._read_one_input_frame once there is a current chunk
read_frame_of_current_chunk(p) ==
    IF p.current_chunk_offset >= BLen(p.current_chunk.audio_data)
    THEN [p |-> advance_finished_chunk(p), frame |-> << >>]
    ELSE [p |-> advance_if_finished(
                    advance_server_cursor_frames(
                        [p EXCEPT !.current_chunk_offset =
                            Min(@ + p.format_frame_size,
                                BLen(p.current_chunk.audio_data))],
                        1)),
          frame |-> frame_at(p, p.current_chunk_offset)]

\* AudioPlayer._read_one_input_frame: the player afterwards and the frame
\* returned (<< >> stands for None)
read_one_input_frame(p) ==
    IF p.format_sample_rate = 0 \/ p.format_frame_size = 0
    THEN [p |-> p, frame |-> << >>]
    ELSE IF p.current_chunk = NoChunk /\ p.queue = << >>
    THEN [p |-> p, frame |-> << >>]
    ELSE read_frame_of_current_chunk(ensure_current_chunk(p))

\* the while loop of AudioPlayer._read_input_frames_bulk: `result` holds the
\* bytes_written bytes copied so far
RECURSIVE read_bulk_loop(_, _, _)

\* one pass of the loop body once there is a current chunk
read_bulk_copy(p, result, total_bytes_needed, bytes_to_read) ==
    read_bulk_loop(
        advance_if_finished(
            advance_server_cursor_frames(
                [p EXCEPT !.current_chunk_offset = @ + bytes_to_read],
                bytes_to_read \div p.format_frame_size)),
        Cat(result, Slice(p.current_chunk.audio_data, p.current_chunk_offset,
                          p.current_chunk_offset + bytes_to_read)),
        total_bytes_needed)

read_bulk_from_chunk(p, result, total_bytes_needed) ==
    read_bulk_copy(p, result, total_bytes_needed,
                   Min(BLen(p.current_chunk.audio_data) - p.current_chunk_offset,
                       total_bytes_needed - BLen(result)))

read_bulk_loop(p, result, total_bytes_needed) ==
    IF BLen(result) >= total_bytes_needed
    THEN [p |-> p, result |-> result, bytes_written |-> BLen(result)]
    ELSE IF p.current_chunk = NoChunk /\ p.queue = << >>
    THEN \* no more data: pad with silence and leave the loop
         [p |-> p,
          result |-> Cat(result, Zeros(total_bytes_needed - BLen(result))),
          bytes_written |-> BLen(result)]
    ELSE read_bulk_from_chunk(ensure_current_chunk(p), result, total_bytes_needed)

\* the end of _read_input_frames_bulk: the last frame read is remembered
read_bulk_result(r, frame_size) ==
    [p |-> IF r.bytes_written >= frame_size
           THEN [r.p EXCEPT !.last_output_frame =
                    Slice(r.result, r.bytes_written - frame_size, r.bytes_written)]
           ELSE r.p,
     data |-> r.result]

\* AudioPlayer._read_input_frames_bulk: the player afterwards and the bytes
\* returned
read_input_frames_bulk(p, n_frames) ==
    IF p.format_sample_rate = 0 \/ n_frames <= 0
    THEN [p |-> p, data |-> << >>]
    ELSE read_bulk_result(read_bulk_loop(p, << >>, n_frames * p.format_frame_size),
                          p.format_frame_size)

\* AudioPlayer._skip_input_frames
RECURSIVE skip_input_frames(_, _)

skip_take(p, frames_to_skip, take) ==
    skip_input_frames(
        advance_if_finished(
            advance_server_cursor_frames(
                [p EXCEPT !.current_chunk_offset = @ + take * p.format_frame_size],
                take)),
        frames_to_skip - take)

skip_from_chunk(p, frames_to_skip, rem_frames) ==
    IF rem_frames <= 0
    THEN skip_input_frames(advance_finished_chunk(p), frames_to_skip)
    ELSE skip_take(p, frames_to_skip, Min(rem_frames, frames_to_skip))

skip_in_current_chunk(p, frames_to_skip) ==
    skip_from_chunk(p, frames_to_skip,
                    (BLen(p.current_chunk.audio_data) - p.current_chunk_offset)
                        \div p.format_frame_size)

skip_input_frames(p, frames_to_skip) ==
    IF p.format_sample_rate = 0 \/ frames_to_skip <= 0 THEN p
    ELSE IF p.current_chunk = NoChunk /\ p.queue = << >> THEN p
    ELSE skip_in_current_chunk(ensure_current_chunk(p), frames_to_skip)

(***************************************************************************)
(* The DAC calibrator.  A calibration is a pair << dac_time_us,            *)
(* loop_time_us >>.  The slope between the last two pairs is a float in    *)
(* the code; here it is the exact fraction, clamped to [0.999, 1.001].     *)
(***************************************************************************)
\* max(_DAC_PER_LOOP_MIN, min(_DAC_PER_LOOP_MAX, num / den)) as << n, d >>
ClampedSlope(num, den) ==
    LET n == IF den < 0 THEN -num ELSE num
        d == IF den < 0 THEN -den ELSE den
    IN  IF n = d THEN << 1, 1 >>
        ELSE IF n * 1000 < DAC_PER_LOOP_MIN_MILLI * d THEN << DAC_PER_LOOP_MIN_MILLI, 1000 >>
        ELSE IF n * 1000 > DAC_PER_LOOP_MAX_MILLI * d THEN << DAC_PER_LOOP_MAX_MILLI, 1000 >>
        ELSE << n, d >>

\* round(ref + x * slope)
RoundAffine(ref, x, slope) ==
    IF slope[1] = slope[2] THEN ref + x
    ELSE RoundDiv(ref * slope[2] + x * slope[1], slope[2])

\* AudioPlayer._estimate_dac_time_for_server_timestamp
estimate_dac_time_for_server_timestamp(p, server_timestamp_us) ==
    LET cal == p.dac_loop_calibrations
        n == Len(cal)
        loop_time_us == compute_client_time(server_timestamp_us)
    IN  IF p.last_dac_calibration_time_us = 0 \/ n = 0 THEN 0
        ELSE LET dac_ref_us == cal[n][1]
                 loop_ref_us == cal[n][2]
                 dac_prev_us == IF n >= 2 THEN cal[n - 1][1] ELSE 0
                 loop_prev_us == IF n >= 2 THEN cal[n - 1][2] ELSE 0
                 dac_per_loop ==
                     IF loop_prev_us # 0 /\ dac_prev_us # 0 /\ loop_ref_us # loop_prev_us
                     THEN ClampedSlope(dac_ref_us - dac_prev_us, loop_ref_us - loop_prev_us)
                     ELSE << 1, 1 >>
             IN  IF loop_ref_us = 0 THEN 0
                 ELSE RoundAffine(dac_ref_us, loop_time_us - loop_ref_us, dac_per_loop)

\* AudioPlayer._estimate_loop_time_for_dac_time
estimate_loop_time_for_dac_time(p, dac_time_us) ==
    LET cal == p.dac_loop_calibrations
        n == Len(cal)
    IN  IF n = 0 THEN 0
        ELSE LET dac_ref_us == cal[n][1]
                 loop_ref_us == cal[n][2]
                 dac_prev_us == IF n >= 2 THEN cal[n - 1][1] ELSE 0
                 loop_prev_us == IF n >= 2 THEN cal[n - 1][2] ELSE 0
                 loop_per_dac ==
                     IF dac_prev_us # 0 /\ dac_ref_us # dac_prev_us
                     THEN ClampedSlope(loop_ref_us - loop_prev_us, dac_ref_us - dac_prev_us)
                     ELSE << 1, 1 >>
             IN  IF loop_ref_us = 0 THEN 0
                 ELSE RoundAffine(loop_ref_us, dac_time_us - dac_ref_us, loop_per_dac)

\* lines 531-534 of _update_playback_position_from_dac: the calibration pair
\* is recorded
record_calibration(p, dac_time_us, loop_time_us) ==
    [p EXCEPT !.dac_loop_calibrations =
                  IF Len(@) + 1 > CALIBRATIONS_MAXLEN
                  THEN Tail(Append(@, << dac_time_us, loop_time_us >>))
                  ELSE Append(@, << dac_time_us, loop_time_us >>),
              !.last_dac_calibration_time_us = loop_time_us]

\* "loop_at_dac_us = estimate or loop_time_us" and the playback position
position_from_estimate(p, estimated_loop_us, loop_time_us) ==
    [p EXCEPT !.last_known_playback_position_us =
                  compute_server_time(IF estimated_loop_us = 0 THEN loop_time_us
                                      ELSE estimated_loop_us)]

record_playback_position(p, dac_time_us, loop_time_us) ==
    position_from_estimate(p, estimate_loop_time_for_dac_time(p, dac_time_us),
                           loop_time_us)

\* the DAC start time is filled in once it can be estimated
set_dac_start(p, est_dac) ==
    IF est_dac # 0 THEN [p EXCEPT !.scheduled_start_dac_time_us = est_dac] ELSE p

refine_scheduled_start(p) ==
    IF p.scheduled_start_dac_time_us = None
       /\ p.scheduled_start_loop_time_us # None
       /\ p.scheduled_start_loop_time_us # 0
    THEN set_dac_start(p, estimate_dac_time_for_server_timestamp(
                              p, compute_server_time(p.scheduled_start_loop_time_us)))
    ELSE p

\* AudioPlayer._update_playback_position_from_dac, with the driver's DAC time
\* and loop.time() as read there
update_playback_position_from_dac(p, dac_time_us, loop_time_us) ==
    refine_scheduled_start(
        record_playback_position(
            record_calibration(p, dac_time_us, loop_time_us),
            dac_time_us, loop_time_us))

(***************************************************************************)
(* AudioPlayer._handle_start_gating, called with bytes_written = 0: the    *)
(* player afterwards and the number of silence bytes written.              *)
(***************************************************************************)
\* "if current_time_us >= target_time_us: PLAYING"
start_when_due(p, delta_us) ==
    IF delta_us <= 0 THEN [p EXCEPT !.playback_state = PLAYING] ELSE p

\* the branches on delta_us with the late skip taken under either clock
gate_on_delta_any_clock(p, frames, delta_us, can_drop_frames) ==
    IF delta_us > 0
    THEN [p |-> p,
          silence_bytes |-> Min(UsToFramesCeil(delta_us, p.format_sample_rate), frames)
                                * p.format_frame_size]
    ELSE IF delta_us < 0 /\ ~(p.early_start_suspect /\ ~p.has_reanchored)
    THEN [p |-> [skip_input_frames(p, UsToFramesCeil(-delta_us, p.format_sample_rate))
                     EXCEPT !.playback_state = PLAYING],
          silence_bytes |-> 0]
    ELSE [p |-> start_when_due(p, delta_us), silence_bytes |-> 0]

\* the branches on delta_us = target_time_us - current_time_us
gate_on_delta(p, frames, delta_us, can_drop_frames) ==
    IF delta_us > 0
    THEN [p |-> p,
          silence_bytes |-> Min(UsToFramesCeil(delta_us, p.format_sample_rate), frames)
                                * p.format_frame_size]
    ELSE IF delta_us < 0 /\ can_drop_frames
            /\ ~(p.early_start_suspect /\ ~p.has_reanchored)
    THEN [p |-> [skip_input_frames(p, UsToFramesCeil(-delta_us, p.format_sample_rate))
                     EXCEPT !.playback_state = PLAYING],
          silence_bytes |-> 0]
    ELSE [p |-> start_when_due(p, delta_us), silence_bytes |-> 0]

handle_start_gating(p, frames, dac_now_us, loop_now_us) ==
    IF p.scheduled_start_dac_time_us # None /\ dac_now_us > 0
    THEN gate_on_delta(p, frames, p.scheduled_start_dac_time_us - dac_now_us, TRUE)
    ELSE IF p.scheduled_start_loop_time_us # None
    THEN gate_on_delta(p, frames, p.scheduled_start_loop_time_us - loop_now_us, FALSE)
    ELSE [p |-> p, silence_bytes |-> 0]

(***************************************************************************)
(* The slow path of the callback (corrections armed): the while loop over  *)
(* frames_remaining.  `out` is the output buffer up to bytes_written.      *)
(***************************************************************************)
RECURSIVE slow_path_loop(_, _, _, _, _, _, _, _)

\* the event after the segment `seg` was read: a drop, an insert, or none;
\* `events` counts << drops, inserts >>
slow_path_event(seg, out, frames_remaining, insert_counter, drop_counter, insert_every_n, drop_every_n, events) ==
    IF frames_remaining > 0 /\ drop_counter <= 0 /\ drop_every_n > 0
    THEN \* drop: read two input frames, emit the last output frame
         slow_path_loop(
             read_one_input_frame(read_one_input_frame(seg.p).p).p,
             Cat(Cat(out, seg.data),
                 Take(seg.p.last_output_frame, seg.p.format_frame_size)),
             frames_remaining - 1, insert_counter - 1, drop_every_n,
             insert_every_n, drop_every_n, << events[1] + 1, events[2] >>)
    ELSE IF frames_remaining > 0 /\ insert_counter <= 0 /\ insert_every_n > 0
    THEN \* insert: emit the last output frame without reading
         slow_path_loop(
             seg.p,
             Cat(Cat(out, seg.data),
                 Take(seg.p.last_output_frame, seg.p.format_frame_size)),
             frames_remaining - 1, insert_every_n, drop_counter - 1,
             insert_every_n, drop_every_n, << events[1], events[2] + 1 >>)
    ELSE slow_path_loop(seg.p, Cat(out, seg.data), frames_remaining,
                        insert_counter, drop_counter, insert_every_n, drop_every_n,
                        events)

\* the bulk read of the next_event_in frames before the next event
slow_path_segment(p, out, frames_remaining, insert_counter, drop_counter, insert_every_n, drop_every_n, events, next_event_in) ==
    IF next_event_in > 0
    THEN slow_path_event(read_input_frames_bulk(p, next_event_in), out,
                         frames_remaining - next_event_in,
                         insert_counter - next_event_in,
                         drop_counter - next_event_in,
                         insert_every_n, drop_every_n, events)
    ELSE slow_path_event([p |-> p, data |-> << >>], out, frames_remaining,
                         insert_counter, drop_counter, insert_every_n, drop_every_n,
                         events)

slow_path_loop(p, out, frames_remaining, insert_counter, drop_counter, insert_every_n, drop_every_n, events) ==
    IF frames_remaining <= 0
    THEN [p |-> p, out |-> out, insert_counter |-> insert_counter,
          drop_counter |-> drop_counter, events |-> events]
    ELSE slow_path_segment(
             p, out, frames_remaining, insert_counter, drop_counter,
             insert_every_n, drop_every_n, events,
             Min(Min(IF insert_every_n > 0 THEN insert_counter
                     ELSE frames_remaining + 1,
                     IF drop_every_n > 0 THEN drop_counter
                     ELSE frames_remaining + 1),
                 frames_remaining))

\* lines 433-440: the counters are armed, the last output frame initialised
arm_cadence(p, insert_every_n, drop_every_n) ==
    [p EXCEPT
        !.frames_until_next_insert =
            IF @ <= 0 /\ insert_every_n > 0 THEN insert_every_n ELSE @,
        !.frames_until_next_drop =
            IF @ <= 0 /\ drop_every_n > 0 THEN drop_every_n ELSE @,
        !.last_output_frame =
            IF @ = << >> THEN Zeros(p.format_frame_size) ELSE @]

\* lines 499-501: the counters are written back
slow_path_result(r) ==
    [p |-> [r.p EXCEPT !.frames_until_next_insert = r.insert_counter,
                       !.frames_until_next_drop = r.drop_counter],
     out |-> r.out, events |-> r.events]

slow_path(p, frames, insert_every_n, drop_every_n) ==
    slow_path_result(
        slow_path_loop(p, << >>, frames, p.frames_until_next_insert,
                       p.frames_until_next_drop, insert_every_n, drop_every_n,
                       << 0, 0 >>))

fast_path_result(r) == [p |-> r.p, out |-> r.data, events |-> << 0, 0 >>]

\* the else branch of _audio_callback (lines 418-501): fast path or slow
\* path, starting at bytes_written = 0, with the snapshot of the cadence
callback_output(p, frames, insert_every_n, drop_every_n) ==
    IF insert_every_n = 0 /\ drop_every_n = 0
    THEN fast_path_result(read_input_frames_bulk(p, frames))
    ELSE slow_path(arm_cadence(p, insert_every_n, drop_every_n), frames,
                   insert_every_n, drop_every_n)

\* _apply_volume without the test of the mute flag
apply_volume_unmuted(out, muted, volume) ==
    IF volume = 0 THEN [out |-> Zeros(BLen(out)), level |-> 0]
    ELSE [out |-> out, level |-> volume]

\* AudioPlayer._apply_volume on the whole buffer: the buffer afterwards and
\* the gain applied to its samples, in percent of the level (100: unchanged)
apply_volume(out, muted, volume) ==
    IF muted \/ volume = 0 THEN [out |-> Zeros(BLen(out)), level |-> 0]
    ELSE IF volume = 100 THEN [out |-> out, level |-> 100]
    ELSE [out |-> out, level |-> volume]

(***************************************************************************)
(* The sync corrector.                                                     *)
(***************************************************************************)
\* the interval without the cap on the correction rate
correction_interval_frames_uncapped(abs_err, sample_rate) ==
    IF abs_err > 0
    THEN Max((CORRECTION_TARGET_SECONDS * MICROSECONDS_PER_SECOND) \div abs_err, 1)
    ELSE MAX_SPEED_CORRECTION_DEN \div MAX_SPEED_CORRECTION_NUM

\* lines 990-1004 of _update_correction_schedule: the interval between
\* corrections.  The code computes in floats
\*   desired = abs_err * rate / 1e6 / 2.0,  cap = rate * 0.04,
\*   interval = max(int(rate / min(desired, cap)), 1);
\* the same values in exact arithmetic, where the rate cancels:
\*   desired <= cap  iff  abs_err * 100 <= 4 * 2 * 1e6,
\*   rate / desired = 2 * 1e6 / abs_err,  rate / cap = 100 / 4.
correction_interval_frames(abs_err, sample_rate) ==
    LET window_us == CORRECTION_TARGET_SECONDS * MICROSECONDS_PER_SECOND
        desired_is_min ==
            abs_err * MAX_SPEED_CORRECTION_DEN <= MAX_SPEED_CORRECTION_NUM * window_us
        capped == MAX_SPEED_CORRECTION_DEN \div MAX_SPEED_CORRECTION_NUM
    IN  IF abs_err > 0
        THEN Max(IF desired_is_min THEN window_us \div abs_err ELSE capped, 1)
        ELSE capped

\* the re-anchor test of _update_correction_schedule (lines 974-978)
reanchor_due(p, abs_err, now_loop_us) ==
    /\ abs_err > REANCHOR_THRESHOLD_US
    /\ p.playback_state = PLAYING
    /\ now_loop_us - p.last_reanchor_loop_time_us > REANCHOR_COOLDOWN_US

\* the re-anchor branch (lines 980-987): cadence reset, cooldown stamp, clear()
reanchor(p, now_loop_us) ==
    clear([p EXCEPT !.insert_every_n_frames = 0,
                    !.drop_every_n_frames = 0,
                    !.frames_until_next_insert = 0,
                    !.frames_until_next_drop = 0,
                    !.last_reanchor_loop_time_us = now_loop_us])

(***************************************************************************)
(* Inputs.                                                                 *)
(***************************************************************************)
\* PCMFormat.sample_rate and PCMFormat.frame_size (16-bit mono)
SampleRates == {44100, 48000}
FrameSizes == {2}
\* chunks are stamped with the microsecond-truncated position of their
\* first frame, counted from a stream that starts at server time 0
FramePositions == {0, 1, 4}
FrameTs(position, sample_rate) == FramesToUs(position, sample_rate)
\* payload lengths in bytes: one frame, a torn frame, four frames
PayloadLengths == {2, 3, 8}
\* the inputs of the two-thread specification: a stream of four-frame chunks
\* at 44.1 kHz, and a payload of torn size
StreamSampleRates == {44100}
StreamPositions == {0, 4}
StreamLengths == {3, 8}
\* outputs of the sync-error filter (SendspinTimeFilter.offset), microseconds
FilteredErrors == {-100000, 0, 10000, 600000}
\* the inputs of the specification of the correction cadence: two adjacent
\* chunks of 28 frames, stamped like every chunk with the truncated position
\* of their first frame, and filtered errors of 100 ms either way
CadencePositions == {1, 29}
CadenceLengths == {56}
CadenceErrors == {-100000, 100000}
\* no sync error
SteadyErrors == {0}
\* the inputs of the specification of the corrector: filtered errors at the
\* deadband, at the cap of the correction rate and beyond the re-anchor
\* threshold
CorrectorErrors == {-80001, -2001, -2000, 2000, 3000, 80000, 600000}
\* steps of loop.time() in the specification of one session: just short of
\* one second, and the duration of one buffer
StartTickAmounts == {999977, 68}
\* steps of the clock mapper's offset at a time-synchronisation update: the
\* threshold of the start refresh, and one microsecond more
SyncSteps == {5000, 5001}
\* the default of the handler's and the player's volume
DefaultVolume == 100
\* volume and mute given to the stream handler, by its constructor and by
\* set_volume: levels of the documented range 0-100
HandlerVolumeArgs == {<< 0, FALSE >>, << 50, TRUE >>, << 100, TRUE >>}
\* arguments of set_volume
VolumeArgs == {<< 50, TRUE >>, << 150, FALSE >>, << -5, FALSE >>}

\* Roles.PLAYER.value
PLAYER_ROLE == "player"

\* no stream_end or stream_clear message received yet
NoRolesSeen == [present |-> FALSE, list |-> << "none" >>]

\* the `roles` argument of stream_end and stream_clear: None, or a list
RoleLists ==
    { [present |-> FALSE, list |-> << >>] }
        \cup { [present |-> TRUE, list |-> l] :
                   l \in { << >>, << "controller", "player" >>,
                           << "controller", "metadata" >> } }

\* no FlacDecoder constructed yet
NoDecoder ==
    [channels |-> 0, bit_depth |-> 0, decodes |-> 0,
     last |-> [raised |-> "none", payload |-> << >>, frames |-> 0, failed |-> FALSE]]

\* no SourceSignalReporter constructed yet
NoReporter == [constructed |-> FALSE]

\* AudioStreamHandler.__init__ (audio_connector.py, lines 29-52): the
\* cached volume and mute, no stream active; `events` is what on_event was
\* called with
NewHandler(volume, muted) ==
    [stream_active |-> FALSE, events |-> << >>, volume |-> volume, muted |-> muted]

MainIdle ==
    [pc |-> "idle", server_timestamp_us |-> 0, payload |-> << >>,
     pending |-> << >>, drained |-> FALSE, callbacks |-> 0, muted |-> FALSE,
     reanchored |-> FALSE, anchored |-> FALSE, corrected |-> FALSE]

CbIdle ==
    [pc |-> "idle", frames |-> 0, dac_time_us |-> 0, out |-> << >>,
     insert_every_n |-> 0, drop_every_n |-> 0, events |-> << 0, 0 >>,
     muted |-> FALSE, volume |-> None, level |-> None, starved |-> FALSE,
     played |-> FALSE, bytes_to_read |-> 0, chunk_len |-> 0, bytes_written |-> 0]

\* no payload sample written yet
NoSample == [written |-> FALSE, dac_us |-> 0, server_us |-> 0, frame_us |-> 0]

NoSubmit ==
    [outcome |-> "none", server_timestamp_us |-> 0, payload_frames |-> 0,
     expected_before |-> None, silence_frames |-> 0, enqueued_frames |-> 0,
     drained |-> FALSE]

Init ==
    /\ player = NewPlayer
    /\ main = MainIdle
    /\ cb = CbIdle
    /\ now = InitialLoopTimeUs
    /\ used = [submits |-> 0, callbacks |-> 0, ticks |-> 0, volume_calls |-> 0,
               stream_starts |-> 0, format_changes |-> 0, syncs |-> 0,
               stream_ends |-> 0, stream_clears |-> 0, handler_calls |-> 0,
               reporter_updates |-> 0, reporter_ticks |-> 0, reporter_resets |-> 0]
    /\ clock_offset_us = ClockOffsetUs
    /\ handler = NewHandler(DefaultVolume, FALSE)
    /\ decoder = NoDecoder
    /\ reporter = NoReporter
    /\ obs = [reanchor_last_us |-> None, reanchor_gap_us |-> None, clears |-> 0,
              volume_pairs |-> {<< NewPlayer.volume, NewPlayer.muted >>},
              last_submit |-> NoSubmit,
              last_real |-> << 0, 0 >>,
              first_sample |-> NoSample,
              open_streams |-> 0,
              start_refreshes |-> 0,
              cursor_base |-> None,
              frames_read |-> 0,
              last_roles |-> NoRolesSeen,
              load_clears |-> None,
              last_volume_call |-> << DefaultVolume, FALSE >>,
              idle_volume_call |-> FALSE,
              cleanups |-> 0,
              differ_since |-> None]

\* loop.time() advances
Tick ==
    /\ used.ticks < MaxTicks
    /\ now' = now + TickUs
    /\ used' = [used EXCEPT !.ticks = @ + 1]
    /\ UNCHANGED << player, main, cb, obs, clock_offset_us, handler, decoder, reporter >>

\* loop.time() advances by a fraction of a second or by one buffer
TickStart ==
    /\ used.ticks < MaxStartTicks
    /\ \E d \in StartTickAmounts : now' = now + d
    /\ used' = [used EXCEPT !.ticks = @ + 1]
    /\ UNCHANGED << player, main, cb, obs, clock_offset_us, handler, decoder, reporter >>

\* the client's time synchronisation refines the offset of the clock mapper
\* (on the event loop, between two calls of submit)
TimeSync ==
    /\ main.pc = "idle"
    /\ used.syncs < MaxSyncs
    /\ \E d \in SyncSteps : clock_offset_us' = clock_offset_us + d
    /\ used' = [used EXCEPT !.syncs = @ + 1]
    /\ UNCHANGED << player, main, cb, now, obs, handler, decoder, reporter >>

\* the streams open in the driver once set_format has run on p: it closes
\* the stream p holds, if any, and opens one
StreamsAfterSetFormat(p) ==
    obs.open_streams - (IF p.stream_open THEN 1 ELSE 0) + 1

\* AudioStreamHandler._on_audio_chunk configures the new player's format
ConfigureFormat(sample_rates) ==
    /\ main.pc = "idle"
    /\ player.format_sample_rate = 0
    /\ \E sr \in sample_rates, fs \in FrameSizes :
           player' = set_format(player, sr, fs)
    /\ obs' = [obs EXCEPT !.open_streams = StreamsAfterSetFormat(player)]
    /\ UNCHANGED << main, cb, now, used, clock_offset_us, handler, decoder, reporter >>

SetFormat == ConfigureFormat(StreamSampleRates)

SetFormatAny == ConfigureFormat(SampleRates)

\* the player _on_audio_chunk builds for a chunk of another format: a new
\* AudioPlayer, set_format, and set_volume with the handler's level and mute
new_player(sample_rate, frame_size, volume, muted) ==
    [set_format(NewPlayer, sample_rate, frame_size)
        EXCEPT !.volume = Max(0, Min(100, volume)), !.muted = muted]

\* AudioStreamHandler._on_audio_chunk, lines 94-105, for a chunk whose
\* format differs from the current one: clear() on the old player, which is
\* then dropped with its stream as it is; callbacks of the old stream act on
\* the old player and are no longer followed
FormatChange ==
    /\ main.pc = "idle"
    /\ player.format_sample_rate # 0
    /\ used.format_changes < MaxFormatChanges
    /\ \E sr \in SampleRates \ {player.format_sample_rate}, fs \in FrameSizes :
           player' = new_player(sr, fs, handler.volume, handler.muted)
    /\ cb' = CbIdle
    /\ obs' = [obs EXCEPT !.open_streams = StreamsAfterSetFormat(NewPlayer)]
    /\ used' = [used EXCEPT !.format_changes = @ + 1]
    /\ UNCHANGED << main, now, clock_offset_us, handler, decoder, reporter >>

\* the lifecycle event fired whether or not _stream_active changes
stream_active_set_always(h, active, event) ==
    [h EXCEPT !.stream_active = active, !.events = Append(@, event)]

\* the lifecycle event fired on a change of _stream_active (lines 117-120,
\* 133-136 and 153-156)
stream_active_set(h, active, event) ==
    IF h.stream_active # active
    THEN [h EXCEPT !.stream_active = active, !.events = Append(@, event)]
    ELSE h

\* AudioStreamHandler._on_stream_start: clear() on the player, if there is
\* one, and the "start" event
StreamStart ==
    /\ main.pc = "idle"
    /\ player.format_sample_rate # 0
    /\ used.stream_starts < MaxStreamStarts
    /\ player' = clear(player)
    /\ handler' = stream_active_set(handler, TRUE, "start")
    /\ obs' = [obs EXCEPT !.clears = @ + 1]
    /\ used' = [used EXCEPT !.stream_starts = @ + 1]
    /\ UNCHANGED << main, cb, now, clock_offset_us, decoder, reporter >>

\* the role test left out
targets_every_role(roles) == TRUE

\* "roles is None or Roles.PLAYER.value in roles" (lines 125 and 141)
targets_player(roles) ==
    \/ ~roles.present
    \/ \E i \in 1..Len(roles.list) : roles.list[i] = PLAYER_ROLE

\* "if self.audio_player is not None: self.audio_player.clear()"
clear_if_present(p) == IF p.format_sample_rate # 0 THEN clear(p) ELSE p

\* AudioStreamHandler._on_stream_end (lines 122-136)
StreamEnd ==
    /\ main.pc = "idle"
    /\ used.stream_ends < MaxStreamEnds
    /\ \E roles \in RoleLists :
           /\ IF targets_player(roles)
              THEN /\ player' = clear_if_present(player)
                   /\ handler' = stream_active_set(handler, FALSE, "stop")
              ELSE UNCHANGED << player, handler >>
           /\ obs' = [obs EXCEPT
                         !.clears = IF targets_player(roles) /\ player.format_sample_rate # 0
                                    THEN @ + 1 ELSE @,
                         !.last_roles = roles]
    /\ used' = [used EXCEPT !.stream_ends = @ + 1]
    /\ UNCHANGED << main, cb, now, clock_offset_us, decoder, reporter >>

\* AudioStreamHandler._on_stream_clear (lines 138-143)
StreamClear ==
    /\ main.pc = "idle"
    /\ used.stream_clears < MaxStreamClears
    /\ \E roles \in RoleLists :
           /\ player' = IF targets_player(roles) THEN clear_if_present(player) ELSE player
           /\ obs' = [obs EXCEPT
                         !.clears = IF targets_player(roles) /\ player.format_sample_rate # 0
                                    THEN @ + 1 ELSE @,
                         !.last_roles = roles]
    /\ used' = [used EXCEPT !.stream_clears = @ + 1]
    /\ UNCHANGED << main, cb, now, clock_offset_us, handler, decoder, reporter >>

(***************************************************************************)
(* The stream handler's cached volume, the creation of its player and      *)
(* cleanup (audio_connector.py).  "No player" (audio_player is None) is    *)
(* the player record without a format.                                     *)
(***************************************************************************)
\* the handler built with the stored volume and mute (daemon.py:171)
HandlerConstruct ==
    /\ main.pc = "idle"
    /\ used.handler_calls = 0 /\ used.stream_starts = 0
    /\ used.stream_ends = 0 /\ used.stream_clears = 0
    /\ player = NewPlayer
    /\ \E a \in HandlerVolumeArgs :
           /\ handler' = NewHandler(a[1], a[2])
           /\ obs' = [obs EXCEPT !.last_volume_call = a]
    /\ used' = [used EXCEPT !.handler_calls = 1]
    /\ UNCHANGED << player, main, cb, now, clock_offset_us, decoder, reporter >>

\* AudioPlayer.set_volume (audio.py, lines 307-316)
player_set_volume(p, volume, muted) ==
    [p EXCEPT !.volume = Max(0, Min(100, volume)), !.muted = muted]

\* the values cached only when they could be forwarded to a player
handler_set_volume_forward_only(h, p, volume, muted) ==
    IF p.format_sample_rate # 0 THEN [h EXCEPT !.volume = volume, !.muted = muted] ELSE h

\* lines 63-64: "self._volume = volume; self._muted = muted"
handler_set_volume(h, p, volume, muted) ==
    [h EXCEPT !.volume = volume, !.muted = muted]

\* AudioStreamHandler.set_volume (lines 54-66)
HandlerSetVolume ==
    /\ main.pc = "idle"
    /\ used.handler_calls < MaxHandlerCalls
    /\ \E a \in HandlerVolumeArgs :
           /\ handler' = handler_set_volume(handler, player, a[1], a[2])
           /\ player' = IF player.format_sample_rate # 0
                        THEN player_set_volume(player, a[1], a[2])
                        ELSE player
           /\ obs' = [obs EXCEPT !.last_volume_call = a,
                                 !.idle_volume_call = player.format_sample_rate = 0]
    /\ used' = [used EXCEPT !.handler_calls = @ + 1]
    /\ UNCHANGED << main, cb, now, clock_offset_us, decoder, reporter >>

\* AudioStreamHandler._on_audio_chunk, lines 93-105, for the first chunk, the
\* first chunk after cleanup or a chunk of another format: a new AudioPlayer
\* with the format of the chunk and the handler's volume and mute
ChunkCreatesPlayer ==
    /\ main.pc = "idle"
    /\ used.handler_calls < MaxHandlerCalls
    /\ \E sr \in SampleRates \ {player.format_sample_rate}, fs \in FrameSizes :
           player' = new_player(sr, fs, handler.volume, handler.muted)
    /\ cb' = CbIdle
    /\ obs' = [obs EXCEPT !.open_streams = StreamsAfterSetFormat(NewPlayer)]
    /\ used' = [used EXCEPT !.handler_calls = @ + 1]
    /\ UNCHANGED << main, now, clock_offset_us, handler, decoder, reporter >>

\* AudioStreamHandler._on_stream_start while there is no player (lines
\* 116-120)
StreamStartEarly ==
    /\ main.pc = "idle"
    /\ player.format_sample_rate = 0
    /\ used.handler_calls < MaxHandlerCalls
    /\ handler' = stream_active_set(handler, TRUE, "start")
    /\ used' = [used EXCEPT !.handler_calls = @ + 1]
    /\ UNCHANGED << player, main, cb, now, obs, clock_offset_us, decoder, reporter >>

\* AudioStreamHandler.cleanup (lines 150-161): the "stop" event of an active
\* stream, the player stopped and dropped
Cleanup ==
    /\ main.pc = "idle"
    /\ used.handler_calls < MaxHandlerCalls
    /\ handler' = stream_active_set(handler, FALSE, "stop")
    /\ player' = NewPlayer
    /\ cb' = CbIdle
    /\ obs' = [obs EXCEPT !.open_streams = IF player.stream_open THEN @ - 1 ELSE @,
                          !.cleanups = @ + 1]
    /\ used' = [used EXCEPT !.handler_calls = @ + 1]
    /\ UNCHANGED << main, now, clock_offset_us, decoder, reporter >>

(***************************************************************************)
(* set_volume(volume, muted=...): two attribute writes.                    *)
(***************************************************************************)
SetVolumeLevel ==
    /\ main.pc = "idle"
    /\ used.volume_calls < MaxVolumeCalls
    /\ \E a \in VolumeArgs :
           LET level == Max(0, Min(100, a[1]))
           IN  /\ player' = [player EXCEPT !.volume = level]
               /\ main' = [main EXCEPT !.pc = "set_muted", !.muted = a[2]]
               /\ obs' = [obs EXCEPT !.volume_pairs = @ \cup {<< level, a[2] >>}]
    /\ used' = [used EXCEPT !.volume_calls = @ + 1]
    /\ UNCHANGED << cb, now, clock_offset_us, handler, decoder, reporter >>

SetVolumeMuted ==
    /\ main.pc = "set_muted"
    /\ player' = [player EXCEPT !.muted = main.muted]
    /\ main' = MainIdle
    /\ UNCHANGED << cb, now, used, obs, clock_offset_us, handler, decoder, reporter >>

(***************************************************************************)
(* submit(server_timestamp_us, payload).                                   *)
(***************************************************************************)
\* submit without its size check
payload_size_unchecked(nbytes, frame_size) == TRUE

\* the size check of submit (line 1037)
payload_size_valid(nbytes, frame_size) == nbytes % frame_size = 0

\* "est_dac if est_dac else None"
dac_or_none(est_dac) == IF est_dac # 0 THEN est_dac ELSE None

\* the start schedule refreshed by every chunk, however small the move
schedule_start_every_chunk(p, server_timestamp_us, now_us) ==
    IF p.scheduled_start_loop_time_us = None
    THEN [p EXCEPT
            !.scheduled_start_loop_time_us = compute_client_time(server_timestamp_us),
            !.scheduled_start_dac_time_us =
                dac_or_none(estimate_dac_time_for_server_timestamp(p, server_timestamp_us)),
            !.playback_state = WAITING_FOR_START,
            !.first_server_timestamp_us = server_timestamp_us,
            !.early_start_suspect =
                IF compute_client_time(server_timestamp_us) - now_us
                       <= EARLY_START_THRESHOLD_US
                THEN TRUE ELSE @]
    ELSE IF p.playback_state = WAITING_FOR_START /\ p.first_server_timestamp_us # None
    THEN [p EXCEPT
            !.scheduled_start_loop_time_us =
                compute_client_time(p.first_server_timestamp_us),
            !.scheduled_start_dac_time_us =
                dac_or_none(estimate_dac_time_for_server_timestamp(
                                p, p.first_server_timestamp_us))]
    ELSE p

\* lines 1047-1080: schedule the start on the first chunk, refresh it while
\* waiting
schedule_start(p, server_timestamp_us, now_us) ==
    IF p.scheduled_start_loop_time_us = None
    THEN [p EXCEPT
            !.scheduled_start_loop_time_us = compute_client_time(server_timestamp_us),
            !.scheduled_start_dac_time_us =
                dac_or_none(estimate_dac_time_for_server_timestamp(p, server_timestamp_us)),
            !.playback_state = WAITING_FOR_START,
            !.first_server_timestamp_us = server_timestamp_us,
            !.early_start_suspect =
                IF compute_client_time(server_timestamp_us) - now_us
                       <= EARLY_START_THRESHOLD_US
                THEN TRUE ELSE @]
    ELSE IF p.playback_state = WAITING_FOR_START /\ p.first_server_timestamp_us # None
            /\ Abs(compute_client_time(p.first_server_timestamp_us)
                       - p.scheduled_start_loop_time_us)
                   > START_TIME_UPDATE_THRESHOLD_US
    THEN [p EXCEPT
            !.scheduled_start_loop_time_us =
                compute_client_time(p.first_server_timestamp_us),
            !.scheduled_start_dac_time_us =
                dac_or_none(estimate_dac_time_for_server_timestamp(
                                p, p.first_server_timestamp_us))]
    ELSE p

\* the guard of the corrector in submit (lines 1085-1089)
correction_due(p) ==
    /\ p.playback_state = PLAYING
    /\ p.last_known_playback_position_us > 0
    /\ p.server_ts_cursor_us > 0

\* the branches of _update_correction_schedule after the filter, up to and
\* including the first write of the cadence: the deadband, the re-anchor, or
\* the first of the two cadence writes.  `pending` is the write still to come.
correct_filtered(p, abs_err, now_loop_us) ==
    IF abs_err <= CORRECTION_DEADBAND_US
    THEN [p |-> [p EXCEPT !.insert_every_n_frames = 0],
          pending |-> << "drop", 0 >>, reanchored |-> FALSE]
    ELSE IF reanchor_due(p, abs_err, now_loop_us)
    THEN [p |-> reanchor(p, now_loop_us), pending |-> << >>, reanchored |-> TRUE]
    ELSE IF p.sync_error_filtered_us > 0
    THEN [p |-> [p EXCEPT !.drop_every_n_frames =
                    correction_interval_frames(abs_err, p.format_sample_rate)],
          pending |-> << "insert", 0 >>, reanchored |-> FALSE]
    ELSE [p |-> [p EXCEPT !.insert_every_n_frames =
                    correction_interval_frames(abs_err, p.format_sample_rate)],
          pending |-> << "drop", 0 >>, reanchored |-> FALSE]

\* _update_correction_schedule with `filtered` the output of
\* _smooth_sync_error
update_correction_schedule(p, filtered, now_loop_us) ==
    correct_filtered([p EXCEPT !.sync_error_filtered_us = filtered],
                     Abs(filtered), now_loop_us)

\* the clear run by every submit(), flagged or not
drain_always(p) == clear(p)

\* the deferred clear reduced to lowering the flag
drain_flag_only(p) == [p EXCEPT !.clear_requested = FALSE]

\* "if self._clear_requested: ... self.clear()" (lines 1027-1030)
drain_clear_request(p) ==
    IF p.clear_requested THEN clear([p EXCEPT !.clear_requested = FALSE]) ELSE p

\* the early returns of submit (lines 1032-1043)
rejection(p, nbytes) ==
    IF p.format_sample_rate = 0 \/ p.format_frame_size = 0 THEN "no_format"
    ELSE IF ~payload_size_valid(nbytes, p.format_frame_size) THEN "invalid"
    ELSE "no"

\* this submit() replaced a scheduled start by another (lines 1074-1078)
StartRefreshed ==
    /\ ~player.clear_requested
    /\ player.scheduled_start_loop_time_us # None
    /\ player'.scheduled_start_loop_time_us # None
    /\ player'.scheduled_start_loop_time_us # player.scheduled_start_loop_time_us

\* what the properties record of a submit() that began: a deferred clear,
\* a refresh of the scheduled start
ObserveClear ==
    [obs EXCEPT !.clears = IF player.clear_requested THEN @ + 1 ELSE @,
                !.start_refreshes = IF StartRefreshed THEN @ + 1 ELSE @]

\* ... and a re-anchor
ObserveReanchor ==
    [ObserveClear EXCEPT
        !.clears = @ + 1,
        !.reanchor_last_us = now,
        !.reanchor_gap_us = IF obs.reanchor_last_us = None THEN None
                            ELSE now - obs.reanchor_last_us]

\* this submit() runs the deferred clear, or follows refused submits that did
FirstSinceUnderflow ==
    \/ player.clear_requested
    \/ obs.last_submit.outcome = "invalid" /\ obs.last_submit.drained

\* the locals of a submit() under way; `drained` and `callbacks` remember
\* that it is the first since an underflow was flagged, and how many
\* callbacks had begun when it was entered; `anchored`, that it scheduled
\* the start (lines 1048-1060); `reanchored`, that its corrector update
\* re-anchored; `corrected`, that its corrector update wrote both intervals
Submitting(pc, server_timestamp_us, nbytes, pending) ==
    [MainIdle EXCEPT !.pc = pc,
                     !.drained = FirstSinceUnderflow,
                     !.callbacks = used.callbacks,
                     !.anchored =
                         drain_clear_request(player).scheduled_start_loop_time_us = None,
                     !.server_timestamp_us = server_timestamp_us,
                     !.payload = PayloadBytes(used.submits + 1, nbytes),
                     !.pending = pending]

\* submit() after the corrector's first write
SubmitCorrected(r, server_timestamp_us, nbytes) ==
    /\ player' = r.p
    /\ main' = IF r.reanchored
               THEN [Submitting("enqueue", server_timestamp_us, nbytes, << >>)
                        EXCEPT !.reanchored = TRUE]
               ELSE Submitting("cadence", server_timestamp_us, nbytes, r.pending)
    /\ obs' = IF r.reanchored THEN ObserveReanchor ELSE ObserveClear

\* submit() after the start schedule (lines 1082-1091)
SubmitScheduled(p, server_timestamp_us, nbytes, errors) ==
    IF correction_due(p)
    THEN \E filtered \in errors :
             SubmitCorrected(update_correction_schedule(p, filtered, now),
                             server_timestamp_us, nbytes)
    ELSE /\ player' = p
         /\ main' = Submitting("enqueue", server_timestamp_us, nbytes, << >>)
         /\ obs' = ObserveClear

\* submit() after the deferred clear (lines 1032-1080)
SubmitChecked(p, server_timestamp_us, nbytes, errors) ==
    IF rejection(p, nbytes) # "no"
    THEN /\ player' = p
         /\ main' = MainIdle
         /\ obs' = [ObserveClear EXCEPT
                       !.last_submit =
                           [NoSubmit EXCEPT
                               !.outcome = rejection(p, nbytes),
                               !.server_timestamp_us = server_timestamp_us,
                               !.expected_before = p.expected_next_timestamp,
                               !.drained = FirstSinceUnderflow]]
    ELSE SubmitScheduled(schedule_start(p, server_timestamp_us, now),
                         server_timestamp_us, nbytes, errors)

\* lines 1026-1091 up to the corrector's first cadence write: the deferred
\* clear, the format and size checks, the start schedule, the corrector
SubmitBegin(positions, lengths, errors) ==
    /\ main.pc = "idle"
    /\ used.submits < MaxSubmits
    /\ \E position \in positions, nbytes \in lengths :
           SubmitChecked(drain_clear_request(player),
                         IF player.format_sample_rate = 0 THEN 0
                         ELSE FrameTs(position, player.format_sample_rate),
                         nbytes, errors)
    /\ used' = [used EXCEPT !.submits = @ + 1]
    /\ UNCHANGED << cb, now, clock_offset_us, handler, decoder, reporter >>

SubmitEnter == SubmitBegin(StreamPositions, StreamLengths, FilteredErrors)

SubmitEnterAny == SubmitBegin(FramePositions, PayloadLengths, FilteredErrors)

\* a stream under filtered errors of every range of the corrector
SubmitEnterCorrector == SubmitBegin(StreamPositions, StreamLengths, CorrectorErrors)

\* a stream that moves on with every chunk: the n-th submit brings one or
\* two frames at position 2n or 3n, next to the chunk before or past a gap
SubmitEnterBacklog == SubmitBegin({2 * used.submits, 3 * used.submits}, {2, 4}, SteadyErrors)

\* one chunk after the other, in sync
SubmitEnterOne == SubmitBegin({2 * used.submits}, {4}, SteadyErrors)

\* a stream of 28-frame chunks in sync
SubmitEnterSteady == SubmitBegin(CadencePositions, CadenceLengths, SteadyErrors)

\* a stream of 28-frame chunks under a steady correction
SubmitEnterCadence == SubmitBegin(CadencePositions, CadenceLengths, CadenceErrors)

\* the second cadence write of _update_correction_schedule
SubmitCadence ==
    /\ main.pc = "cadence"
    /\ player' = IF main.pending[1] = "insert"
                 THEN [player EXCEPT !.insert_every_n_frames = main.pending[2]]
                 ELSE [player EXCEPT !.drop_every_n_frames = main.pending[2]]
    /\ main' = [main EXCEPT !.pc = "enqueue", !.pending = << >>, !.corrected = TRUE]
    /\ UNCHANGED << cb, now, used, obs, clock_offset_us, handler, decoder, reporter >>

\* lines 1156-1159: the stream starts with the first queued chunk
start_stream(p) ==
    IF ~p.stream_started /\ Len(p.queue) > 0 /\ p.stream_open
    THEN [p EXCEPT !.stream_started = TRUE]
    ELSE p

\* lines 1140-1154: the chunk is queued unless it is empty
queue_chunk(p, server_timestamp_us, payload) ==
    IF BLen(payload) > 0
    THEN [p EXCEPT
            !.queue = Append(@, QueuedChunk(server_timestamp_us, payload)),
            !.queued_duration_us =
                @ + FramesToUs(BLen(payload) \div p.format_frame_size,
                               p.format_sample_rate),
            !.expected_next_timestamp =
                server_timestamp_us
                    + FramesToUs(BLen(payload) \div p.format_frame_size,
                                 p.format_sample_rate)]
    ELSE p

\* lines 1100-1118: gap_frames of silence are queued at expected_next
queue_silence(p, server_timestamp_us, gap_frames) ==
    [p EXCEPT
        !.queue = Append(@, QueuedChunk(p.expected_next_timestamp,
                                        Zeros(gap_frames * p.format_frame_size))),
        !.queued_duration_us = @ + FramesToUs(gap_frames, p.format_sample_rate),
        !.expected_next_timestamp = server_timestamp_us]

\* what submit() did: the player afterwards, the branch taken, the frames of
\* silence and of payload queued
Enqueued(p, outcome, silence_frames, payload) ==
    [p |-> start_stream(p), outcome |-> outcome, silence_frames |-> silence_frames,
     enqueued_frames |-> BLen(payload) \div p.format_frame_size]

enqueue_after_gap(p, server_timestamp_us, payload, gap_frames) ==
    Enqueued(queue_chunk(queue_silence(p, server_timestamp_us, gap_frames),
                         server_timestamp_us, payload),
             "gap", gap_frames, payload)

enqueue_trimmed(p, payload, trim_bytes) ==
    IF trim_bytes < BLen(payload)
    THEN Enqueued(queue_chunk(p, p.expected_next_timestamp, Drop(payload, trim_bytes)),
                  "overlap", 0, Drop(payload, trim_bytes))
    ELSE [p |-> p, outcome |-> "skipped", silence_frames |-> 0, enqueued_frames |-> 0]

\* lines 1096-1164: gap/overlap normalisation and the enqueue
enqueue(p, server_timestamp_us, payload) ==
    IF p.expected_next_timestamp = None
    THEN Enqueued(queue_chunk([p EXCEPT !.expected_next_timestamp = server_timestamp_us],
                              server_timestamp_us, payload),
                  "first", 0, payload)
    ELSE IF server_timestamp_us > p.expected_next_timestamp
    THEN enqueue_after_gap(p, server_timestamp_us, payload,
                           UsToFrames(server_timestamp_us - p.expected_next_timestamp,
                                      p.format_sample_rate))
    ELSE IF server_timestamp_us < p.expected_next_timestamp
    THEN enqueue_trimmed(p, payload,
                         UsToFrames(p.expected_next_timestamp - server_timestamp_us,
                                    p.format_sample_rate) * p.format_frame_size)
    ELSE Enqueued(queue_chunk(p, server_timestamp_us, payload), "aligned", 0, payload)

\* what the properties record of a finished submit()
ObserveSubmit(r) ==
    [obs EXCEPT !.last_submit =
        [outcome |-> r.outcome,
         server_timestamp_us |-> main.server_timestamp_us,
         payload_frames |-> BLen(main.payload) \div player.format_frame_size,
         expected_before |-> player.expected_next_timestamp,
         silence_frames |-> r.silence_frames,
         enqueued_frames |-> r.enqueued_frames,
         drained |-> main.drained]]

SubmitEnqueued(r) ==
    /\ player' = r.p
    /\ obs' = ObserveSubmit(r)

SubmitEnqueue ==
    /\ main.pc = "enqueue"
    /\ SubmitEnqueued(enqueue(player, main.server_timestamp_us, main.payload))
    /\ main' = MainIdle
    /\ UNCHANGED << cb, now, used, clock_offset_us, handler, decoder, reporter >>

(***************************************************************************)
(* The enqueue of submit() in two steps, so that a callback can run        *)
(* between the put_nowait of the chunk (line 1150) and the statements that *)
(* account for it (lines 1152-1154).                                       *)
(***************************************************************************)
\* line 1150: the chunk is in the queue, nothing else is written yet
put_chunk(p, server_timestamp_us, payload) ==
    [p EXCEPT !.queue = Append(@, QueuedChunk(server_timestamp_us, payload))]

\* lines 1152-1154: "self._queued_duration_us += chunk_duration_us" and the
\* expected position, both from the locals of submit()
account_chunk(p, server_timestamp_us, chunk_frames) ==
    [p EXCEPT
        !.queued_duration_us = @ + FramesToUs(chunk_frames, p.format_sample_rate),
        !.expected_next_timestamp =
            server_timestamp_us + FramesToUs(chunk_frames, p.format_sample_rate)]

\* lines 1096-1139: the player, the timestamp and the payload after the gap
\* or overlap handling; `skipped` when submit() returns at line 1137
normalised(p, server_timestamp_us, payload, skipped) ==
    [p |-> p, server_timestamp_us |-> server_timestamp_us, payload |-> payload,
     skipped |-> skipped]

trimmed(p, server_timestamp_us, payload, trim_bytes) ==
    IF trim_bytes < BLen(payload)
    THEN normalised(p, p.expected_next_timestamp, Drop(payload, trim_bytes), FALSE)
    ELSE normalised(p, server_timestamp_us, payload, TRUE)

normalise(p, server_timestamp_us, payload) ==
    IF p.expected_next_timestamp = None
    THEN normalised([p EXCEPT !.expected_next_timestamp = server_timestamp_us],
                    server_timestamp_us, payload, FALSE)
    ELSE IF server_timestamp_us > p.expected_next_timestamp
    THEN normalised(queue_silence(p, server_timestamp_us,
                                  UsToFrames(server_timestamp_us
                                                 - p.expected_next_timestamp,
                                             p.format_sample_rate)),
                    server_timestamp_us, payload, FALSE)
    ELSE IF server_timestamp_us < p.expected_next_timestamp
    THEN trimmed(p, server_timestamp_us, payload,
                 UsToFrames(p.expected_next_timestamp - server_timestamp_us,
                            p.format_sample_rate) * p.format_frame_size)
    ELSE normalised(p, server_timestamp_us, payload, FALSE)

\* submit() up to and including line 1150
SubmitPutChunk(n) ==
    IF n.skipped
    THEN /\ player' = n.p
         /\ main' = MainIdle
    ELSE IF BLen(n.payload) = 0
    THEN /\ player' = start_stream(n.p)
         /\ main' = MainIdle
    ELSE /\ player' = put_chunk(n.p, n.server_timestamp_us, n.payload)
         /\ main' = [main EXCEPT !.pc = "account",
                                 !.server_timestamp_us = n.server_timestamp_us,
                                 !.payload = n.payload]

SubmitPut ==
    /\ main.pc = "enqueue"
    /\ SubmitPutChunk(normalise(player, main.server_timestamp_us, main.payload))
    /\ UNCHANGED << cb, now, used, obs, clock_offset_us, handler, decoder, reporter >>

\* submit() from line 1152 to its end
SubmitAccount ==
    /\ main.pc = "account"
    /\ player' = start_stream(account_chunk(player, main.server_timestamp_us,
                                            BLen(main.payload)
                                                \div player.format_frame_size))
    /\ main' = MainIdle
    /\ UNCHANGED << cb, now, used, obs, clock_offset_us, handler, decoder, reporter >>

(***************************************************************************)
(* _audio_callback(outdata, frames, time, status), frames = CallbackFrames *)
(* and time.outputBufferDacTime = loop time + DacLatencyUs.                *)
(***************************************************************************)
\* the underflow branch with the clear run at once on the audio thread
flag_underflow_and_clear(p) == [clear(p) EXCEPT !.clear_requested = TRUE]

\* line 394: the clear is left to the event-loop thread
flag_underflow(p) == [p EXCEPT !.clear_requested = TRUE]

\* lines 390-397: the driver reports an input or output underflow
CbUnderflow ==
    /\ cb.pc = "idle"
    /\ player.stream_started
    /\ used.callbacks < MaxCallbacks
    /\ player' = flag_underflow(player)
    /\ cb' = [CbIdle EXCEPT !.frames = CallbackFrames,
                            !.out = Zeros(CallbackFrames * player.format_frame_size)]
    /\ used' = [used EXCEPT !.callbacks = @ + 1]
    /\ UNCHANGED << main, now, obs, clock_offset_us, handler, decoder, reporter >>

\* the bytes of input not yet consumed: the queue and the rest of the
\* current chunk
RECURSIVE QueuedBytes(_)
QueuedBytes(q) == IF q = << >> THEN 0 ELSE BLen(Head(q).audio_data) + QueuedBytes(Tail(q))

InputBytes(p) ==
    QueuedBytes(p.queue) + BLen(p.current_chunk.audio_data) - p.current_chunk_offset

\* the timestamp the cursor is set to on the way from p to q, where it was 0
\* in p and a chunk was loaded (lines 574-575 and 706-707); None when no
\* chunk was loaded
NextCursorBase(p, q) ==
    IF p.current_chunk # NoChunk THEN p.current_chunk.server_timestamp_us
    ELSE IF Len(q.queue) < Len(p.queue) THEN Head(p.queue).server_timestamp_us
    ELSE None

\* what the properties record of the reads that took the player from p to
\* q: the timestamp the cursor was set to, the frames read since
ObserveReads(o, p, q) ==
    [o EXCEPT !.cursor_base = IF p.server_ts_cursor_us = 0 THEN NextCursorBase(p, q) ELSE @,
              !.frames_read = (IF p.server_ts_cursor_us = 0 THEN 0 ELSE @)
                                  + (InputBytes(p) - InputBytes(q)) \div p.format_frame_size,
              !.load_clears = IF Len(q.queue) < Len(p.queue) THEN o.clears ELSE @]

\* the first WAITING_FOR_START test (line 406)
gate(p, frames, dac_now_us, loop_now_us) ==
    IF p.playback_state = WAITING_FOR_START
    THEN handle_start_gating(p, frames, dac_now_us, loop_now_us).p
    ELSE p

\* the second WAITING_FOR_START test (line 412): the silent buffer and the
\* mute read of _apply_volume, or the read of the insert cadence
CbGated(p, frames, dac_time_us) ==
    /\ player' = p
    /\ obs' = ObserveReads(obs, player, p)
    /\ cb' = IF p.playback_state = WAITING_FOR_START
             THEN [CbIdle EXCEPT !.pc = "volume",
                                 !.frames = frames,
                                 !.dac_time_us = dac_time_us,
                                 !.out = Zeros(frames * p.format_frame_size),
                                 !.muted = p.muted]
             ELSE [CbIdle EXCEPT !.pc = "output",
                                 !.frames = frames,
                                 !.starved = p.queue = << >> /\ p.current_chunk = NoChunk,
                                 !.played = p.playback_state = PLAYING,
                                 !.dac_time_us = dac_time_us,
                                 !.insert_every_n = p.insert_every_n_frames]

\* lines 400-421 and, while still waiting, 413-416 with line 855:
\* calibration, start gating, then either the silent buffer or the read of
\* the insert cadence, for a callback asked for `frames` frames.  Gating
\* writes silence only when it leaves the state WAITING_FOR_START, so
\* bytes_written is 0 whenever the read path is entered.
CbBegin(frames) ==
    /\ cb.pc = "idle"
    /\ player.stream_started
    /\ used.callbacks < MaxCallbacks
    /\ CbGated(gate(update_playback_position_from_dac(player, now + DacLatencyUs, now),
                    frames, now + DacLatencyUs, now),
               frames, now + DacLatencyUs)
    /\ used' = [used EXCEPT !.callbacks = @ + 1]
    /\ UNCHANGED << main, now, clock_offset_us, handler, decoder, reporter >>

CbEnter == CbBegin(CallbackFrames)

\* a callback asked for a buffer long enough to hold a correction event
CbEnterLong == CbBegin(LongCallbackFrames)

\* the same lines when the driver reports no DAC time
\* (time.outputBufferDacTime = 0.0): the start is gated on loop.time().  A
\* driver without DAC time has reported none in the callbacks before.
CbEnterNoDacTime ==
    /\ cb.pc = "idle"
    /\ player.stream_started
    /\ used.callbacks < MaxCallbacks
    /\ \A i \in 1..Len(player.dac_loop_calibrations) :
           player.dac_loop_calibrations[i][1] = 0
    /\ CbGated(gate(update_playback_position_from_dac(player, 0, now),
                    CallbackFrames, 0, now),
               CallbackFrames, 0)
    /\ used' = [used EXCEPT !.callbacks = @ + 1]
    /\ UNCHANGED << main, now, clock_offset_us, handler, decoder, reporter >>

\* the end << submit, byte offset >> of the last payload byte of `out`, or
\* `before` when `out` holds none
LastReal(out, before) ==
    IF \A k \in 1..Len(out) : out[k].src = 0 THEN before
    ELSE LET k == CHOOSE i \in 1..Len(out) :
                      /\ out[i].src # 0
                      /\ \A j \in (i + 1)..Len(out) : out[j].src = 0
         IN  << out[k].src, out[k].off + out[k].len >>

\* the chunk of p, current or queued, that holds the payload of submit `src`
ChunkOf(p, src) ==
    IF p.current_chunk # NoChunk /\ p.current_chunk.audio_data[1].src = src
    THEN p.current_chunk
    ELSE p.queue[CHOOSE i \in 1..Len(p.queue) :
                     /\ p.queue[i].audio_data # << >>
                     /\ p.queue[i].audio_data[1].src = src]

\* the payload sample at run k of `out`: the DAC time at which the driver
\* plays it, when the buffer starts at dac_time_us, and its server time,
\* counted from the timestamp of its chunk
SampleAt(p, out, k, dac_time_us) ==
    [written |-> TRUE,
     dac_us |-> dac_time_us
                  + FramesToUs(BLen(SubSeq(out, 1, k - 1)) \div p.format_frame_size,
                               p.format_sample_rate),
     server_us |-> ChunkOf(p, out[k].src).server_timestamp_us
                     + FramesToUs((out[k].off - ChunkOf(p, out[k].src).audio_data[1].off)
                                      \div p.format_frame_size,
                                  p.format_sample_rate),
     frame_us |-> CeilMulDiv(1, MICROSECONDS_PER_SECOND, p.format_sample_rate)]

\* the first payload sample ever written, once there is one
FirstSample(p, out, dac_time_us, before) ==
    IF before.written \/ AllZero(out) THEN before
    ELSE SampleAt(p, out,
                  CHOOSE k \in 1..Len(out) :
                      /\ out[k].src # 0
                      /\ \A j \in 1..(k - 1) : out[j].src = 0,
                  dac_time_us)

CbFilled(r, drop_every_n) ==
    /\ player' = r.p
    /\ cb' = [cb EXCEPT !.pc = "volume", !.out = r.out,
                        !.drop_every_n = drop_every_n,
                        !.events = r.events,
                        !.muted = r.p.muted]
    /\ obs' = ObserveReads(
                  [obs EXCEPT !.last_real = LastReal(r.out, @),
                              !.first_sample = FirstSample(player, r.out, cb.dac_time_us, @)],
                  player, r.p)

\* lines 422-501 and the mute read of _apply_volume (line 855): the read of
\* the drop cadence, the fast or slow path
CbOutput ==
    /\ cb.pc = "output"
    /\ CbFilled(callback_output(player, cb.frames, cb.insert_every_n,
                                player.drop_every_n_frames),
                player.drop_every_n_frames)
    /\ UNCHANGED << main, now, used, clock_offset_us, handler, decoder, reporter >>

(***************************************************************************)
(* The fast path followed pass by pass through the loop of                 *)
(* _read_input_frames_bulk (lines 634-663), so that the event-loop thread  *)
(* can run between the copy out of the current chunk and the update of     *)
(* the offset and the cursor.                                              *)
(***************************************************************************)
\* the end of _read_input_frames_bulk and of the fast path (lines 665-668,
\* 428-431) and the mute read of _apply_volume
CbReadFilled(r) ==
    /\ player' = r.p
    /\ cb' = [cb EXCEPT !.pc = "volume", !.out = r.out, !.events = r.events,
                        !.muted = r.p.muted]
    /\ obs' = ObserveReads([obs EXCEPT !.last_real = LastReal(r.out, @)], player, r.p)

CbReadDone(p, result, bytes_written) ==
    CbReadFilled(fast_path_result(
                     read_bulk_result([p |-> p, result |-> result,
                                       bytes_written |-> bytes_written],
                                      p.format_frame_size)))

\* lines 648-656 once there is a current chunk: the copy into `result`
CbReadCopy(p, total_bytes_needed, bytes_to_read) ==
    /\ player' = p
    /\ cb' = [cb EXCEPT !.pc = "read_update",
                        !.out = Cat(@, Slice(p.current_chunk.audio_data,
                                             p.current_chunk_offset,
                                             p.current_chunk_offset + bytes_to_read)),
                        !.chunk_len = BLen(p.current_chunk.audio_data),
                        !.bytes_to_read = bytes_to_read]
    /\ obs' = ObserveReads(obs, player, p)

\* one pass of the loop up to the copy (lines 638-656), or the silence that
\* ends it (lines 641-645)
CbReadPass(total_bytes_needed) ==
    IF player.current_chunk = NoChunk /\ player.queue = << >>
    THEN CbReadDone(player, Cat(cb.out, Zeros(total_bytes_needed - cb.bytes_written)),
                    cb.bytes_written)
    ELSE CbReadCopy(ensure_current_chunk(player), total_bytes_needed,
                    Min(BLen(ensure_current_chunk(player).current_chunk.audio_data)
                            - ensure_current_chunk(player).current_chunk_offset,
                        total_bytes_needed - cb.bytes_written))

\* the fast path entered (lines 422-428): the read of the drop cadence and
\* the first pass of the loop
CbReadFirst ==
    /\ cb.pc = "output"
    /\ cb.insert_every_n = 0
    /\ player.drop_every_n_frames = 0
    /\ CbReadPass(cb.frames * player.format_frame_size)
    /\ UNCHANGED << main, now, used, clock_offset_us, handler, decoder, reporter >>

\* a later pass of the loop
CbReadMore ==
    /\ cb.pc = "read_more"
    /\ CbReadPass(cb.frames * player.format_frame_size)
    /\ UNCHANGED << main, now, used, clock_offset_us, handler, decoder, reporter >>

\* "if self._current_chunk_offset >= len(chunk_data)" with the local
\* chunk_data (lines 662-663)
advance_if_past(p, chunk_len) ==
    IF p.current_chunk_offset >= chunk_len THEN advance_finished_chunk(p) ELSE p

\* lines 658-663 on the player as it is now: offset, cursor, finished chunk
read_bulk_update(p, bytes_to_read, chunk_len) ==
    advance_if_past(
        advance_server_cursor_frames(
            [p EXCEPT !.current_chunk_offset = @ + bytes_to_read],
            bytes_to_read \div p.format_frame_size),
        chunk_len)

\* the rest of the pass, then the loop test
CbReadUpdated(p, bytes_written, total_bytes_needed) ==
    IF bytes_written < total_bytes_needed
    THEN /\ player' = p
         /\ cb' = [cb EXCEPT !.pc = "read_more", !.bytes_written = bytes_written]
         /\ obs' = ObserveReads(obs, player, p)
    ELSE CbReadDone(p, cb.out, bytes_written)

CbReadUpdate ==
    /\ cb.pc = "read_update"
    /\ CbReadUpdated(read_bulk_update(player, cb.bytes_to_read, cb.chunk_len),
                     cb.bytes_written + cb.bytes_to_read,
                     cb.frames * player.format_frame_size)
    /\ UNCHANGED << main, now, used, clock_offset_us, handler, decoder, reporter >>

CbScaled(r) ==
    cb' = [cb EXCEPT !.pc = "idle", !.volume = player.volume,
                     !.out = r.out, !.level = r.level]

\* lines 856-872: the level read and the scaling; the callback returns
CbApplyVolume ==
    /\ cb.pc = "volume"
    /\ CbScaled(apply_volume(cb.out, cb.muted, player.volume))
    /\ UNCHANGED << player, main, now, used, obs, clock_offset_us, handler, decoder, reporter >>

\* the event-loop thread and the audio callback thread
Next ==
    \/ Tick
    \/ SetFormat
    \/ SetVolumeLevel
    \/ SetVolumeMuted
    \/ SubmitEnter
    \/ SubmitCadence
    \/ SubmitEnqueue
    \/ CbUnderflow
    \/ CbEnter
    \/ CbOutput
    \/ CbApplyVolume

Spec == Init /\ [][Next]_vars

\* the event-loop thread alone, before the stream's first callback
NextSubmit ==
    \/ SetFormatAny
    \/ SubmitEnterAny
    \/ SubmitEnqueue

SpecSubmit == Init /\ [][NextSubmit]_vars

\* one session at the level of the stream handler: the start of playback on
\* a finely stepped clock, stream_start messages and a change of format
NextSession ==
    \/ TickStart
    \/ SetFormat
    \/ FormatChange
    \/ StreamStart
    \/ SubmitEnter
    \/ SubmitCadence
    \/ SubmitEnqueue
    \/ CbEnter
    \/ CbOutput
    \/ CbApplyVolume

SpecSession == Init /\ [][NextSession]_vars

\* the start of playback with a driver that may report no DAC time
NextGate ==
    \/ Tick
    \/ SetFormat
    \/ SubmitEnter
    \/ SubmitCadence
    \/ SubmitEnqueue
    \/ CbEnter
    \/ CbEnterNoDacTime
    \/ CbOutput
    \/ CbApplyVolume

SpecGate == Init /\ [][NextGate]_vars

\* the start of playback while the time synchronisation still moves
NextSync ==
    \/ TimeSync
    \/ Tick
    \/ SetFormat
    \/ SubmitEnter
    \/ SubmitCadence
    \/ SubmitEnqueue
    \/ CbEnter
    \/ CbOutput
    \/ CbApplyVolume

SpecSync == Init /\ [][NextSync]_vars

\* playback under a correction cadence, with buffers that hold an event
NextCadence ==
    \/ Tick
    \/ SetFormatAny
    \/ SubmitEnterCadence
    \/ SubmitCadence
    \/ SubmitEnqueue
    \/ CbEnter
    \/ CbEnterLong
    \/ CbOutput
    \/ CbApplyVolume

SpecCadence == Init /\ [][NextCadence]_vars

\* playback under filtered errors of every range of the corrector
NextCorrector ==
    \/ Tick
    \/ SetFormat
    \/ SubmitEnterCorrector
    \/ SubmitCadence
    \/ SubmitEnqueue
    \/ CbEnter
    \/ CbOutput
    \/ CbApplyVolume

SpecCorrector == Init /\ [][NextCorrector]_vars

\* one stream from its start to its end, with the messages of other roles
NextStream ==
    \/ Tick
    \/ SetFormat
    \/ StreamStart
    \/ StreamEnd
    \/ StreamClear
    \/ SubmitEnterSteady
    \/ SubmitCadence
    \/ SubmitEnqueue
    \/ CbEnter
    \/ CbOutput
    \/ CbApplyVolume

SpecStream == Init /\ [][NextStream]_vars

\* a stream queued ahead of its start: the callbacks wait, nothing is consumed
NextBacklog ==
    \/ SetFormatAny
    \/ SubmitEnterBacklog
    \/ SubmitEnqueue
    \/ CbEnter
    \/ CbApplyVolume

SpecBacklog == Init /\ [][NextBacklog]_vars

\* the event-loop thread against a callback whose bulk read is followed
\* pass by pass
NextRace ==
    \/ Tick
    \/ SetFormat
    \/ StreamStart
    \/ SubmitEnterSteady
    \/ SubmitCadence
    \/ SubmitEnqueue
    \/ CbEnter
    \/ CbReadFirst
    \/ CbReadMore
    \/ CbReadUpdate
    \/ CbApplyVolume

SpecRace == Init /\ [][NextRace]_vars

\* the callback against a submit() whose enqueue is followed in two steps
NextAccount ==
    \/ Tick
    \/ SetFormat
    \/ SubmitEnter
    \/ SubmitCadence
    \/ SubmitPut
    \/ SubmitAccount
    \/ CbEnter
    \/ CbOutput
    \/ CbApplyVolume

SpecAccount == Init /\ [][NextAccount]_vars

\* the stream handler: messages of the stream, volume commands, chunks that
\* make it build a player, cleanup
NextHandler ==
    \/ HandlerConstruct
    \/ HandlerSetVolume
    \/ ChunkCreatesPlayer
    \/ StreamStartEarly
    \/ StreamStart
    \/ StreamEnd
    \/ StreamClear
    \/ Cleanup
    \/ SubmitEnterOne
    \/ SubmitEnqueue

SpecHandler == Init /\ [][NextHandler]_vars

(***************************************************************************)
(* FlacDecoder (sendspin/decoder.py).  What PyAV makes of the stream is an *)
(* input: av.open() raises av.FFmpegError, or container.decode() yields    *)
(* frames and may raise av.FFmpegError after them.  A frame is             *)
(* [planar, bits, samples, planes]: its sample format (s16, s16p, s32,     *)
(* s32p), its samples per channel, and its planes as sequences of sample   *)
(* values (one plane per channel when planar, one plane in all when        *)
(* packed).  PCM output is a sequence of byte values.                      *)
(***************************************************************************)
\* pcm_format.channels and pcm_format.bit_depth of the AudioFormat
DecoderChannels == {1, 2}
DecoderBitDepths == {16, 24, 32}

\* the k-th sample of plane pl of a decoded frame: a 16-bit value, which a
\* 32-bit format holds left-justified
FrameSample(bits, pl, k) ==
    (IF (pl + k) % 2 = 0 THEN 258 * k + pl ELSE -(3 * k + pl))
        * (IF bits = 16 THEN 1 ELSE 65536)

AvFrame(planar, bits, samples, channels) ==
    [planar |-> planar, bits |-> bits, samples |-> samples,
     planes |-> IF planar
                THEN [pl \in 1..channels |-> [k \in 1..samples |-> FrameSample(bits, pl, k)]]
                ELSE << [k \in 1..(samples * channels) |-> FrameSample(bits, 1, k)] >>]

AvFrames ==
    { AvFrame(planar, bits, samples, channels) :
          planar \in BOOLEAN, bits \in {16, 32}, samples \in {1, 2}, channels \in {1, 2} }

\* what av.open(...) and container.decode(audio=0) do with one stream
AvResults ==
    { [open_error |-> TRUE, frames |-> << >>, decode_error |-> FALSE] }
        \cup { [open_error |-> FALSE, frames |-> fs, decode_error |-> e] :
                   fs \in { << >> } \cup { << f >> : f \in AvFrames }
                                   \cup { << f, f >> : f \in AvFrames },
                   e \in BOOLEAN }

\* byte i (from 0) of a sample in little-endian two's complement:
\* (sample >> 8*i) & 0xFF
sample_byte(v, i) == (v \div << 1, 256, 65536, 16777216 >>[i + 1]) % 256

\* ndarray.tobytes() of samples of nbytes bytes each
tobytes(samples, nbytes) ==
    [i \in 1..(Len(samples) * nbytes) |->
        sample_byte(samples[((i - 1) \div nbytes) + 1], (i - 1) % nbytes)]

\* FlacDecoder._pack_24bit: the low three bytes of each sample
pack_24bit(samples_32) == tobytes(samples_32, 3)

\* ndarray.astype(np.int16) of a 32-bit value
astype_int16(v) == ((v + 32768) % 65536) - 32768

\* FlacDecoder._convert_bit_depth
convert_bit_depth(samples, src_bits, bit_depth) ==
    IF src_bits = bit_depth
    THEN IF bit_depth = 24 THEN pack_24bit(samples) ELSE tobytes(samples, src_bits \div 8)
    ELSE IF src_bits = 32 /\ bit_depth = 24
    THEN pack_24bit([i \in 1..Len(samples) |-> samples[i] \div 256])
    ELSE IF src_bits = 32 /\ bit_depth = 16
    THEN tobytes([i \in 1..Len(samples) |-> astype_int16(samples[i] \div 65536)], 2)
    ELSE IF src_bits = 16 /\ bit_depth = 24
    THEN pack_24bit([i \in 1..Len(samples) |-> samples[i] * 256])
    ELSE IF src_bits = 16 /\ bit_depth = 32
    THEN tobytes([i \in 1..Len(samples) |-> samples[i] * 65536], 4)
    ELSE tobytes(samples, src_bits \div 8)

\* the samples _frame_to_pcm reads from a planar frame: plane ch fills
\* samples[ch :: channels]
interleave(frame, channels) ==
    [i \in 1..(frame.samples * channels) |->
        frame.planes[((i - 1) % channels) + 1][((i - 1) \div channels) + 1]]

\* ... and from a packed frame: the first samples * channels of plane 0, or
\* as many as it holds
packed_samples(frame, channels) ==
    SubSeq(frame.planes[1], 1, Min(frame.samples * channels, Len(frame.planes[1])))

\* FlacDecoder._frame_to_pcm; frame.planes[ch] raises IndexError for a
\* channel the frame has no plane for
frame_to_pcm(d, frame) ==
    IF frame.planar /\ d.channels > Len(frame.planes)
    THEN [raised |-> "IndexError", payload |-> << >>]
    ELSE [raised |-> "none",
          payload |-> convert_bit_depth(
                          IF frame.planar THEN interleave(frame, d.channels)
                          ELSE packed_samples(frame, d.channels),
                          frame.bits, d.bit_depth)]

\* "for frame in container.decode(audio=0): pcm_bytes.extend(...)"
RECURSIVE decode_frames(_, _, _)
decode_frames(d, frames, pcm_bytes) ==
    IF frames = << >> THEN [raised |-> "none", payload |-> pcm_bytes]
    ELSE IF frame_to_pcm(d, Head(frames)).raised # "none"
    THEN frame_to_pcm(d, Head(frames))
    ELSE decode_frames(d, Tail(frames), pcm_bytes \o frame_to_pcm(d, Head(frames)).payload)

\* an exception that is not av.FFmpegError leaves decode() (lines 58-75)
decode_result(r, decode_error) ==
    IF r.raised # "none" THEN r
    ELSE IF decode_error THEN [raised |-> "none", payload |-> << >>]
    ELSE r

\* FlacDecoder.decode
decode(d, av_result) ==
    IF av_result.open_error THEN [raised |-> "none", payload |-> << >>]
    ELSE decode_result(decode_frames(d, av_result.frames, << >>), av_result.decode_error)

\* FlacDecoder.__init__
NewFlacDecoder ==
    /\ decoder.channels = 0
    /\ \E channels \in DecoderChannels, bit_depth \in DecoderBitDepths :
           decoder' = [NoDecoder EXCEPT !.channels = channels, !.bit_depth = bit_depth]
    /\ UNCHANGED << player, main, cb, now, used, obs, clock_offset_us, handler, reporter >>

\* one call of decode(); `failed` remembers that PyAV raised or that the
\* conversion of a frame did, `frames` how many frames PyAV yielded
Decode ==
    /\ decoder.channels # 0
    /\ decoder.decodes < MaxDecodes
    /\ \E av_result \in AvResults :
           decoder' =
               [decoder EXCEPT
                   !.decodes = @ + 1,
                   !.last = [raised |-> decode(decoder, av_result).raised,
                             payload |-> decode(decoder, av_result).payload,
                             frames |-> Len(av_result.frames),
                             failed |->
                                 \/ av_result.open_error
                                 \/ av_result.decode_error
                                 \/ decode_frames(decoder, av_result.frames, << >>).raised
                                        # "none"]]
    /\ UNCHANGED << player, main, cb, now, used, obs, clock_offset_us, handler, reporter >>

NextDecoder ==
    \/ NewFlacDecoder
    \/ Decode

SpecDecoder == Init /\ [][NextDecoder]_vars

(***************************************************************************)
(* SourceSignalReporter (source_utils.py).  Levels and thresholds are in   *)
(* millionths of full scale, times in microseconds of loop.time().  The    *)
(* send_state and send_command callables are given; what is kept of them   *)
(* is the number of commands sent, the last command and the number of      *)
(* state messages.                                                         *)
(***************************************************************************)
PRESENT == "present"
ABSENT == "absent"
NoSignal == "none"
NoCommand == "none"
STARTED == "started"
STOPPED == "stopped"
NoState == "none"
SourceStates == {"idle", "streaming"}

\* threshold_db arguments, and None for "leave as it is" in update_vad
ThresholdDbs == {-40, -20}
\* hold_ms arguments (the default is 300), and None in update_vad
HoldMs == {0, 300}
\* levels given to update()
Levels == {0, 50000, 1000000}
\* steps of loop.time() between two calls
ReporterTicksUs == {100000, 300000}

\* "10 ** (threshold_db / 20.0)", in millionths
threshold_of(threshold_db) == IF threshold_db = -40 THEN 10000 ELSE 100000

\* "max(0.0, hold_ms / 1000.0)", in microseconds
hold_of(hold_ms) == Max(0, hold_ms * 1000)

\* SourceSignalReporter.__init__ (lines 42-63)
NewReporter(threshold_db, hold_ms) ==
    [constructed |-> TRUE,
     threshold |-> threshold_of(threshold_db),
     hold_us |-> hold_of(hold_ms),
     last_signal |-> NoSignal,
     last_state |-> NoState,
     candidate_signal |-> NoSignal,
     candidate_since |-> 0,
     commands_sent |-> 0,
     last_command |-> NoCommand,
     states_sent |-> 0]

ReporterConstruct ==
    /\ ~reporter.constructed
    /\ \E threshold_db \in ThresholdDbs, hold_ms \in HoldMs :
           reporter' = NewReporter(threshold_db, hold_ms)
    /\ UNCHANGED << player, main, cb, now, used, obs, clock_offset_us, handler, decoder >>

\* loop.time() between two calls of the reporter
ReporterTick ==
    /\ reporter.constructed
    /\ used.reporter_ticks < MaxReporterTicks
    /\ \E dt \in ReporterTicksUs : now' = now + dt
    /\ used' = [used EXCEPT !.reporter_ticks = @ + 1]
    /\ UNCHANGED << player, main, cb, obs, clock_offset_us, handler, decoder, reporter >>

\* SourceSignalReporter.update_vad (lines 65-79), finite arguments
update_vad(r, threshold_db, hold_ms) ==
    [r EXCEPT !.threshold = IF threshold_db # None THEN threshold_of(threshold_db) ELSE @,
              !.hold_us = IF hold_ms # None THEN hold_of(hold_ms) ELSE @,
              !.candidate_signal = NoSignal,
              !.candidate_since = 0]

ReporterUpdateVad ==
    /\ reporter.constructed
    /\ used.reporter_resets < MaxReporterResets
    /\ \E threshold_db \in ThresholdDbs \cup {None}, hold_ms \in HoldMs \cup {None} :
           reporter' = update_vad(reporter, threshold_db, hold_ms)
    /\ used' = [used EXCEPT !.reporter_resets = @ + 1]
    /\ UNCHANGED << player, main, cb, now, obs, clock_offset_us, handler, decoder >>

\* SourceSignalReporter.reset (lines 81-86)
reset(r) ==
    [r EXCEPT !.last_signal = NoSignal,
              !.last_state = NoState,
              !.candidate_signal = NoSignal,
              !.candidate_since = 0]

ReporterReset ==
    /\ reporter.constructed
    /\ used.reporter_resets < MaxReporterResets
    /\ reporter' = reset(reporter)
    /\ obs' = [obs EXCEPT !.differ_since = None]
    /\ used' = [used EXCEPT !.reporter_resets = @ + 1]
    /\ UNCHANGED << player, main, cb, now, clock_offset_us, handler, decoder >>

\* lines 90-92
raw_signal_of(r, level) == IF level >= r.threshold THEN PRESENT ELSE ABSENT

\* lines 101-110: the command, if there was a signal before, and the commit
commit(r, raw_signal) ==
    [r EXCEPT !.commands_sent = IF r.last_signal # NoSignal THEN @ + 1 ELSE @,
              !.last_command = IF r.last_signal = NoSignal THEN @
                               ELSE IF raw_signal = PRESENT THEN STARTED ELSE STOPPED,
              !.last_signal = raw_signal,
              !.candidate_signal = NoSignal,
              !.candidate_since = 0]

\* lines 96-110
debounce(r, raw_signal, now_us) ==
    IF raw_signal # r.last_signal
    THEN IF r.candidate_signal # raw_signal
         THEN [r EXCEPT !.candidate_signal = raw_signal, !.candidate_since = now_us]
         ELSE IF now_us - r.candidate_since >= r.hold_us
         THEN commit(r, raw_signal)
         ELSE r
    ELSE r

\* lines 112-113
first_signal(r, raw_signal) ==
    IF r.last_signal = NoSignal THEN [r EXCEPT !.last_signal = raw_signal] ELSE r

\* lines 114-118: the state message
send_state_if_changed(r, previous_signal, state) ==
    IF r.last_state # state \/ r.last_signal # previous_signal
    THEN [r EXCEPT !.states_sent = @ + 1, !.last_state = state]
    ELSE r

\* SourceSignalReporter.update (lines 88-118)
update(r, level, state, now_us) ==
    send_state_if_changed(
        first_signal(debounce(r, raw_signal_of(r, level), now_us),
                     raw_signal_of(r, level)),
        r.last_signal, state)

\* since when the raw signal has differed from the committed one in every
\* update, None when the last update agreed with it
differs_since(since, r, q, raw_signal, now_us) ==
    IF raw_signal = r.last_signal \/ raw_signal = q.last_signal THEN None
    ELSE IF since = None THEN now_us
    ELSE since

ReporterUpdate ==
    /\ reporter.constructed
    /\ used.reporter_updates < MaxReporterUpdates
    /\ \E level \in Levels, state \in SourceStates :
           /\ reporter' = update(reporter, level, state, now)
           /\ obs' = [obs EXCEPT
                         !.differ_since =
                             differs_since(@, reporter, reporter',
                                           raw_signal_of(reporter, level), now)]
    /\ used' = [used EXCEPT !.reporter_updates = @ + 1]
    /\ UNCHANGED << player, main, cb, now, clock_offset_us, handler, decoder >>

NextReporter ==
    \/ ReporterConstruct
    \/ ReporterTick
    \/ ReporterUpdateVad
    \/ ReporterReset
    \/ ReporterUpdate

SpecReporter == Init /\ [][NextReporter]_vars

(***************************************************************************)
(* Properties.                                                             *)
(***************************************************************************)
\* the frame whose microsecond-truncated position is us
FramePosition(us, sample_rate) == UsToFramesCeil(us, sample_rate)

\* C1 as stated: across all submits and callbacks the server cursor never
\* decreases.
C1_CursorNeverDecreases ==
    [][player'.server_ts_cursor_us >= player.server_ts_cursor_us]_vars

\* C1, amended: the server cursor decreases only when clear() resets it to 0
\* (the deferred clear after an underflow, or a re-anchor); a callback never
\* decreases it, and a callback step that consumes at least one frame of
\* input strictly increases it.
C1_CursorMonotoneBetweenClears ==
    [][/\ player'.server_ts_cursor_us < player.server_ts_cursor_us
            => /\ player'.server_ts_cursor_us = 0
               /\ obs'.clears > obs.clears
       /\ cb' # cb
            => /\ player'.server_ts_cursor_us >= player.server_ts_cursor_us
               /\ InputBytes(player) - InputBytes(player') >= player.format_frame_size
                    => player'.server_ts_cursor_us > player.server_ts_cursor_us]_vars

\* a callback has read frames again after a clear reset the cursor
C1_Witness ==
    /\ obs.clears > 0
    /\ cb.pc = "volume"
    /\ ~AllZero(cb.out)
    /\ player.server_ts_cursor_us > 0

\* C2 as stated: two re-anchors are never less than 5 s of loop time apart.
C2_ReanchorsFiveSecondsApart ==
    obs.reanchor_gap_us = None \/ obs.reanchor_gap_us >= REANCHOR_COOLDOWN_US

\* C3 as stated: the (insert_every_n, drop_every_n) pair a callback
\* snapshots has at most one non-zero component.
C3_SnapshotOneSided == cb.insert_every_n = 0 \/ cb.drop_every_n = 0

\* C4 as stated: while the clear-requested flag stays raised no chunk is
\* appended to the input queue.
C4_NoAppendWhileClearRequested ==
    [][player.clear_requested /\ player'.clear_requested
           => Len(player'.queue) <= Len(player.queue)]_vars

\* the corrections per 100 frames that a cadence interval schedules, rounded
\* up
RatePercent(interval) == IF interval = 0 THEN 0 ELSE (100 + interval - 1) \div interval

\* C5 as stated: the cadence a callback runs with schedules drops and
\* inserts at no more than 4% of the frames together.
C5_RateWithinCap ==
    RatePercent(cb.insert_every_n) + RatePercent(cb.drop_every_n)
        <= MAX_SPEED_CORRECTION_NUM

\* C6 as stated: after every submit(), adjacent chunks a, b of the queue
\* satisfy b.server_ts = a.server_ts + floor(frames(a) * 1e6 / sample_rate).
C6_AdjacentChunksContiguous ==
    main.pc = "idle" =>
        \A i \in 1..(Len(player.queue) - 1) :
            player.queue[i + 1].server_timestamp_us
                = player.queue[i].server_timestamp_us
                  + FramesToUs(BLen(player.queue[i].audio_data)
                                   \div player.format_frame_size,
                               player.format_sample_rate)

\* the last submit found the tail ending on frame q and was stamped with the
\* position of frame p
TailOnGrid ==
    /\ obs.last_submit.expected_before # None
    /\ FrameTs(FramePosition(obs.last_submit.expected_before, player.format_sample_rate),
               player.format_sample_rate) = obs.last_submit.expected_before

\* frames from the end of the tail to the submitted timestamp (negative: the
\* chunk starts before the end of the tail)
FramesAfterTail ==
    FramePosition(obs.last_submit.server_timestamp_us, player.format_sample_rate)
        - FramePosition(obs.last_submit.expected_before, player.format_sample_rate)

\* C7 as stated: a chunk stamped k whole frames after the end of the tail is
\* preceded by exactly k frames of silence.
C7_GapFilledWithKFrames ==
    main.pc = "idle" /\ obs.last_submit.outcome \in {"gap", "overlap", "aligned", "skipped"}
       /\ TailOnGrid /\ FramesAfterTail > 0
        => /\ obs.last_submit.outcome = "gap"
           /\ obs.last_submit.silence_frames = FramesAfterTail
           /\ obs.last_submit.enqueued_frames = obs.last_submit.payload_frames

\* C8 as stated: a chunk stamped k whole frames before the end of the tail
\* loses exactly its first k frames, and is dropped when k is at least its
\* frame count.
C8_OverlapTrimsKFrames ==
    main.pc = "idle" /\ obs.last_submit.outcome \in {"gap", "overlap", "aligned", "skipped"}
       /\ TailOnGrid /\ FramesAfterTail < 0
        => IF -FramesAfterTail >= obs.last_submit.payload_frames
           THEN obs.last_submit.outcome = "skipped"
           ELSE /\ obs.last_submit.outcome = "overlap"
                /\ obs.last_submit.enqueued_frames
                       = obs.last_submit.payload_frames + FramesAfterTail

\* C9: every chunk on the input queue, and the chunk being played, has a
\* byte length that is a multiple of frame_size.
C9_QueuedChunksWholeFrames ==
    /\ \A i \in 1..Len(player.queue) :
           BLen(player.queue[i].audio_data) % player.format_frame_size = 0
    /\ player.current_chunk # NoChunk
           => BLen(player.current_chunk.audio_data) % player.format_frame_size = 0

\* the queue holds a synthesized silence chunk and a trimmed payload, and a
\* payload of torn size was just refused
C9_Witness ==
    /\ \E i \in 1..Len(player.queue) :
           /\ player.queue[i].audio_data # << >>
           /\ player.queue[i].audio_data[1].src = 0
    /\ \E i \in 1..Len(player.queue) :
           /\ player.queue[i].audio_data # << >>
           /\ player.queue[i].audio_data[1].off > 0
    /\ obs.last_submit.outcome = "invalid"

\* C10 as stated: the (level, muted) pair a callback applied was established
\* by one set_volume() call, or is the initial pair.
C10_AppliedPairEstablished ==
    cb.volume # None => << cb.volume, cb.muted >> \in obs.volume_pairs

\* a step in which a callback took the underflow branch and returned
UnderflowStep ==
    /\ cb.pc = "idle"
    /\ cb'.pc = "idle"
    /\ used'.callbacks = used.callbacks + 1

\* C11: a callback that is told of an underflow raises the clear-requested
\* flag, writes an all-zero buffer of the requested size, and changes nothing
\* else of the player: the queue, the current chunk, the server cursor and
\* the playback state stay as they were.
C11_UnderflowOnlyFlags ==
    [][UnderflowStep
           => /\ player'.clear_requested
              /\ player' = [player EXCEPT !.clear_requested = TRUE]
              /\ AllZero(cb'.out)
              /\ BLen(cb'.out) = CallbackFrames * player.format_frame_size]_vars

\* an underflow was reported while the player was playing, with chunks
\* queued and the cursor set
C11_Witness ==
    /\ cb.pc = "idle"
    /\ cb.level = None
    /\ cb.out # << >>
    /\ player.clear_requested
    /\ player.playback_state = PLAYING
    /\ Len(player.queue) > 0
    /\ player.current_chunk # NoChunk
    /\ player.server_ts_cursor_us > 0

\* a step in which the first valid submit() since an underflow was flagged
\* returns
ReturnAfterUnderflow ==
    /\ main.pc = "enqueue"
    /\ main'.pc = "idle"
    /\ main.drained

\* that submit() leaves its chunk alone on the queue and the schedule built
\* from it
RebuiltFrom(p, server_timestamp_us, payload) ==
    /\ p.queue = << QueuedChunk(server_timestamp_us, payload) >>
    /\ p.current_chunk = NoChunk
    /\ p.first_server_timestamp_us = server_timestamp_us
    /\ p.scheduled_start_loop_time_us = compute_client_time(server_timestamp_us)

NotBefore(e, start, slack) ==
    \/ start[1] > e[1]
    \/ start[1] = e[1] /\ start[2] >= e[2] - slack

\* the payload runs of `out` follow each other, and `before`, in the order of
\* submission
InSubmissionOrder(out, before, slack) ==
    \A k \in 1..Len(out) :
        out[k].src # 0
            => NotBefore(LastReal(SubSeq(out, 1, k - 1), before),
                         << out[k].src, out[k].off >>, slack)

\* C13: the payload frames that successive callbacks write come in the order
\* of submission, chunk after chunk and frame after frame; without a
\* correction armed no frame is written twice, with one armed a frame is
\* repeated only as the copy of the frame written last.
C13_OutputInSubmissionOrder ==
    [][cb.pc = "output" /\ cb'.pc = "volume"
           => InSubmissionOrder(cb'.out, obs.last_real,
                                IF cb'.insert_every_n = 0 /\ cb'.drop_every_n = 0
                                THEN 0 ELSE player.format_frame_size)]_vars

\* the second callback wrote the end of one chunk and the start of the next
C13_Witness ==
    /\ cb.pc = "volume"
    /\ used.callbacks = 2
    /\ \E i, j \in 1..Len(cb.out) :
           /\ i < j
           /\ cb.out[i].src # 0
           /\ cb.out[j].src > cb.out[i].src
           /\ cb.out[i].off > 0

\* C16: with the mute flag or the level 0 that _apply_volume reads, the
\* buffer the callback returns is all zeros; with level 100 and no mute it
\* is the buffer the read path produced, byte for byte; and the level that
\* set_volume stores is always within 0..100.
C16_VolumeLaw ==
    /\ [](player.volume \in 0..100)
    /\ [][cb.pc = "volume" /\ cb'.pc = "idle"
              => /\ BLen(cb'.out) = BLen(cb.out)
                 /\ cb.muted \/ player.volume = 0 => AllZero(cb'.out)
                 /\ ~cb.muted /\ player.volume = 100 => cb'.out = cb.out]_vars

\* set_volume(-5, muted=False) stored level 0, and the one callback that ran
\* read payload frames and returned an all-zero buffer
C16_Witness ==
    /\ cb.pc = "idle"
    /\ used.callbacks = 1
    /\ obs.last_real # << 0, 0 >>
    /\ cb.volume = 0
    /\ ~cb.muted
    /\ cb.out # << >>
    /\ AllZero(cb.out)

\* a step in which submit() refuses a payload whose length is not a multiple
\* of frame_size
RefusedStep ==
    /\ main.pc = "idle"
    /\ main'.pc = "idle"
    /\ used'.submits = used.submits + 1
    /\ obs'.last_submit.outcome = "invalid"

DueDacTime(server_us) == compute_client_time(server_us) + DacLatencyUs

\* C14 as stated: the first payload sample a callback writes is played
\* within one frame of the DAC time at which its server timestamp is due.
C14_FirstSampleAligned ==
    obs.first_sample.written
        => Abs(obs.first_sample.dac_us - DueDacTime(obs.first_sample.server_us))
               <= obs.first_sample.frame_us

\* C17 as stated: handling stream_start empties the queue and leaves the
\* playback state and the DAC calibration ring unchanged.
C17_StreamStartKeepsCalibration ==
    [][used'.stream_starts = used.stream_starts + 1
           => /\ player'.queue = << >>
              /\ player'.playback_state = player.playback_state
              /\ player'.dac_loop_calibrations = player.dac_loop_calibrations]_vars

\* C18 as stated: at most one output stream is open at any time, and the
\* player of the new format starts in INITIALIZING with an empty queue.
C18_OneStreamOpen ==
    /\ [](obs.open_streams <= 1)
    /\ [][used'.format_changes = used.format_changes + 1
              => /\ player'.playback_state = INITIALIZING
                 /\ player'.queue = << >>]_vars

\* the scheduled DAC start falls strictly inside the buffer of the callback
\* that begins in this step, and there is audio queued
StartInsideBuffer ==
    /\ cb.pc = "idle"
    /\ cb'.pc # "idle"
    /\ player.playback_state = WAITING_FOR_START
    /\ Len(player.queue) > 0
    /\ player'.scheduled_start_dac_time_us # None
    /\ player'.scheduled_start_dac_time_us > cb'.dac_time_us
    /\ player'.scheduled_start_dac_time_us
           < cb'.dac_time_us + FramesToUs(CallbackFrames, player.format_sample_rate)

\* C20 as stated: when the scheduled DAC start falls strictly inside the
\* buffer being filled, the state becomes PLAYING in that callback and the
\* callback goes on to write audio into the buffer.
C20_StartsInsideBuffer ==
    [][StartInsideBuffer
           => /\ player'.playback_state = PLAYING
              /\ cb'.pc = "output"]_vars

\* a step in which the submit() whose corrector update re-anchored queues
\* its chunk: the first chunk queued after the re-anchor
EnqueueAfterReanchor ==
    /\ main.pc = "enqueue"
    /\ main.reanchored
    /\ main'.pc = "idle"
    /\ obs'.last_submit.enqueued_frames > 0

\* C21 as stated: once the first chunk queued after a re-anchor is in the
\* queue, the state is WAITING_FOR_START and the stored first-chunk
\* timestamp is that chunk's timestamp.
C21_AnchoredOnNextChunk ==
    [][EnqueueAfterReanchor
           => /\ player'.playback_state = WAITING_FOR_START
              /\ player'.first_server_timestamp_us = main.server_timestamp_us]_vars

\* a step in which a submit() returns from its last line, having queued a
\* chunk or skipped one that is all overlap
SubmitReturns ==
    /\ main.pc = "enqueue"
    /\ main'.pc = "idle"

\* C22 as stated: the state leaves INITIALIZING exactly in the submit() that
\* queues the first chunk after construction or a clear.  The step that
\* leaves INITIALIZING is a submit() that sets the scheduled start to
\* to_client(chunk timestamp), stores the chunk's timestamp as the
\* first-chunk timestamp and enters WAITING_FOR_START; the submit() that did
\* so queues a chunk; and the submit() that queues the first chunk since the
\* queue was reset is the one that did so.
C22_LeavesInitializingOnFirstEnqueue ==
    [][/\ player.playback_state = INITIALIZING /\ player'.playback_state # INITIALIZING
            => /\ main'.pc \in {"enqueue", "cadence"}
               /\ main'.anchored
               /\ player'.playback_state = WAITING_FOR_START
               /\ player'.scheduled_start_loop_time_us
                      = compute_client_time(main'.server_timestamp_us)
               /\ player'.first_server_timestamp_us = main'.server_timestamp_us
       /\ SubmitReturns /\ main.anchored
            => obs'.last_submit.enqueued_frames > 0
       /\ SubmitReturns /\ player.expected_next_timestamp = None
            /\ obs'.last_submit.enqueued_frames > 0
            => main.anchored]_vars

\* a step in which a callback runs the start gate
GateStep ==
    /\ cb.pc = "idle"
    /\ cb'.pc # "idle"
    /\ player.playback_state = WAITING_FOR_START

\* C23: the start gate removes input frames only under DAC gating (the
\* driver reports a DAC time and the DAC start is known) and with the
\* early-start-suspect flag not set or a re-anchor recorded; gated on the
\* loop clock, or with the flag set and no re-anchor, it leaves the queue,
\* the current chunk and the server cursor as they were, however late.
C23_GateSkipsOnlyUnderDac ==
    [][GateStep
           => \/ /\ cb'.dac_time_us > 0
                 /\ player'.scheduled_start_dac_time_us # None
                 /\ ~(player.early_start_suspect /\ ~player.has_reanchored)
              \/ /\ player'.queue = player.queue
                 /\ player'.current_chunk = player.current_chunk
                 /\ player'.current_chunk_offset = player.current_chunk_offset
                 /\ player'.server_ts_cursor_us = player.server_ts_cursor_us]_vars

\* a callback without DAC time found the start overdue by a second, with no
\* early-start suspicion, and began to play without having removed a frame
C23_Witness ==
    /\ cb.pc = "output"
    /\ cb.dac_time_us = 0
    /\ used.callbacks = 1
    /\ player.playback_state = PLAYING
    /\ ~player.early_start_suspect
    /\ now > player.scheduled_start_loop_time_us
    /\ Len(player.queue) > 0
    /\ player.current_chunk = NoChunk
    /\ player.server_ts_cursor_us = 0

\* a step in which a submit() passes the format and size checks while the
\* state is WAITING_FOR_START and no clear is pending
SubmitWhileWaiting ==
    /\ main.pc = "idle"
    /\ main'.pc # "idle"
    /\ used'.submits = used.submits + 1
    /\ player.playback_state = WAITING_FOR_START
    /\ ~player.clear_requested

\* C24: a submit() accepted in WAITING_FOR_START replaces the scheduled
\* start by to_client(first-chunk timestamp) if and only if the two differ
\* by more than 5 ms; afterwards they differ by at most 5 ms; and the stored
\* first-chunk timestamp stays as it was.
C24_StartRefreshedBeyondThreshold ==
    [][SubmitWhileWaiting
           => /\ player'.scheduled_start_loop_time_us
                    = IF Abs(compute_client_time(player.first_server_timestamp_us)
                                 - player.scheduled_start_loop_time_us)
                             > START_TIME_UPDATE_THRESHOLD_US
                      THEN compute_client_time(player.first_server_timestamp_us)
                      ELSE player.scheduled_start_loop_time_us
              /\ Abs(player'.scheduled_start_loop_time_us
                         - compute_client_time(player'.first_server_timestamp_us))
                     <= START_TIME_UPDATE_THRESHOLD_US
              /\ player'.first_server_timestamp_us = player.first_server_timestamp_us]_vars

\* the mapper moved by 5.001 ms and then by exactly 5 ms more, and a chunk
\* with another timestamp was submitted after each move: the start was
\* replaced after the first move and the submit() under way has kept it
\* after the second, so it lies 5 ms before the mapped first-chunk timestamp
C24_Witness ==
    /\ main.pc = "enqueue"
    /\ ~main.anchored
    /\ used.syncs = 2
    /\ obs.start_refreshes = 1
    /\ player.playback_state = WAITING_FOR_START
    /\ player.first_server_timestamp_us # None
    /\ main.server_timestamp_us # player.first_server_timestamp_us
    /\ player.scheduled_start_loop_time_us
           = compute_client_time(player.first_server_timestamp_us) - 5000
    /\ clock_offset_us = ClockOffsetUs + 10001

\* the exact position of the server cursor in units of 1/sample_rate
\* microseconds: us * sample_rate + remainder
CursorTicks(p) == p.server_ts_cursor_us * p.format_sample_rate + p.server_ts_cursor_remainder

\* the frames of input the step consumed
FramesConsumed == (InputBytes(player) - InputBytes(player')) \div player.format_frame_size

\* a step in which a callback in PLAYING fills its buffer from an input
\* that holds at least the frames + D frames it may consume, the cursor
\* being set
PlaysWithEnoughInput ==
    /\ cb.pc = "output"
    /\ cb'.pc = "volume"
    /\ player.playback_state = PLAYING
    /\ player.server_ts_cursor_us > 0
    /\ InputBytes(player) >= (cb.frames + cb'.events[1]) * player.format_frame_size

\* C25 as stated: every callback writes exactly `frames` frames; in PLAYING
\* with enough queued input it consumes frames + D - I input frames, D and I
\* being its drop and insert events, and advances the server cursor by as
\* many frames; with both intervals zero it consumes exactly `frames`.
C25_ConsumesFramesPlusDropsMinusInserts ==
    /\ [](cb.pc = "volume" => BLen(cb.out) = cb.frames * player.format_frame_size)
    /\ [][PlaysWithEnoughInput
              => /\ FramesConsumed = cb.frames + cb'.events[1] - cb'.events[2]
                 /\ CursorTicks(player') - CursorTicks(player)
                        = FramesConsumed * MICROSECONDS_PER_SECOND
                 /\ cb'.insert_every_n = 0 /\ cb'.drop_every_n = 0
                        => FramesConsumed = cb.frames]_vars

\* a step in which a callback in PLAYING fills its buffer, having found the
\* queue empty and no chunk held when it began and finding them so still
PlaysStarved ==
    /\ cb.pc = "output"
    /\ cb'.pc = "volume"
    /\ cb.starved
    /\ player.playback_state = PLAYING
    /\ player.queue = << >>
    /\ player.current_chunk = NoChunk

\* C26 as stated: a callback in PLAYING that has no input, queued or held,
\* writes an all-zero buffer and leaves the server cursor where it was, with
\* or without a correction cadence.
C26_StarvedCallbackIsSilent ==
    [][PlaysStarved
           => /\ AllZero(cb'.out)
              /\ BLen(cb'.out) = cb.frames * player.format_frame_size
              /\ player'.server_ts_cursor_us = player.server_ts_cursor_us
              /\ player'.server_ts_cursor_remainder
                     = player.server_ts_cursor_remainder]_vars

\* a step in which a callback reads input: the start gate, or the fast or
\* slow path
ReadStep ==
    \/ cb.pc = "idle" /\ cb'.pc \in {"output", "volume"}
    \/ cb.pc = "output" /\ cb'.pc = "volume"

\* C27: after n input frames have been read, in bulk reads, single-frame
\* reads and skips, since the cursor was set to a chunk timestamp T0, the
\* cursor is T0 + floor(n * 1e6 / sample_rate) and the remainder is within
\* 0..sample_rate-1.
C27_CursorIsExact ==
    [][ReadStep /\ obs'.cursor_base # None
           => /\ player'.server_ts_cursor_us
                    = obs'.cursor_base
                      + FramesToUs(obs'.frames_read, player.format_sample_rate)
              /\ player'.server_ts_cursor_remainder >= 0
              /\ player'.server_ts_cursor_remainder < player.format_sample_rate]_vars

\* more frames than one buffer holds have been read since the cursor was
\* set, the last of them by a callback with a drop event (bulk and
\* single-frame reads), and the cursor carries a remainder
C27_Witness ==
    /\ cb.pc = "volume"
    /\ cb.events[1] > 0
    /\ obs.cursor_base > 0
    /\ obs.frames_read > cb.frames
    /\ player.server_ts_cursor_remainder > 0
    /\ player.server_ts_cursor_us
           = obs.cursor_base + FramesToUs(obs.frames_read, player.format_sample_rate)

\* the interval the corrector is to choose for a filtered error e at the
\* given rate: max(1, floor(rate / min(|e|*rate/1e6/2, 0.04*rate))).  The
\* rate divides out; the quotient is taken without rounding as (2e6 * 100)
\* over min(|e| * 100, 4 * 2e6)
ProportionalInterval(e, rate) ==
    LET desired_scaled == Abs(e) * 100
        cap_scaled == 4 * 2000000
    IN  Max(1, (2000000 * 100)
                   \div (IF desired_scaled <= cap_scaled THEN desired_scaled ELSE cap_scaled))

\* C28: after a corrector update that does not re-anchor, both intervals are
\* 0 when the filtered error is within 2 ms either way; otherwise only the
\* drop interval (error positive) or only the insert interval (error
\* negative) is set, to max(1, floor(rate / min(|e|*rate/1e6/2, 0.04*rate))).
C28_IntervalsFollowFilteredError ==
    main.pc = "enqueue" /\ main.corrected
        => IF Abs(player.sync_error_filtered_us) <= 2000
           THEN /\ player.insert_every_n_frames = 0
                /\ player.drop_every_n_frames = 0
           ELSE IF player.sync_error_filtered_us > 0
           THEN /\ player.insert_every_n_frames = 0
                /\ player.drop_every_n_frames
                       = ProportionalInterval(player.sync_error_filtered_us,
                                              player.format_sample_rate)
           ELSE /\ player.drop_every_n_frames = 0
                /\ player.insert_every_n_frames
                       = ProportionalInterval(player.sync_error_filtered_us,
                                              player.format_sample_rate)

\* a corrector update on a filtered error just past the cap of the
\* correction rate has set the insert interval to 25 frames, after an update
\* that had set the drop interval
C28_Witness ==
    /\ main.pc = "enqueue"
    /\ main.corrected
    /\ player.sync_error_filtered_us = -80001
    /\ player.insert_every_n_frames = 25
    /\ player.drop_every_n_frames = 0
    /\ cb.drop_every_n > 0

\* a stream_end or stream_clear message was handled in this step
StreamMessageStep ==
    \/ used'.stream_ends # used.stream_ends
    \/ used'.stream_clears # used.stream_clears

\* the roles of the last message are absent or name the player
LastRolesTargetPlayer(o) ==
    \/ ~o.last_roles.present
    \/ \E i \in 1..Len(o.last_roles.list) : o.last_roles.list[i] = "player"

\* C29: stream_end and stream_clear clear the player's queue exactly when
\* the role list is absent or contains the player role; with a role list
\* that excludes the player, the queue, the playback state and the
\* handler's stream-active flag stay as they are and no event is fired.
C29_ClearsOnlyForPlayerRole ==
    [][StreamMessageStep
           => IF LastRolesTargetPlayer(obs')
              THEN /\ player'.queue = << >>
                   /\ player'.current_chunk = NoChunk
                   /\ player.format_sample_rate # 0 => obs'.clears = obs.clears + 1
              ELSE /\ player'.queue = player.queue
                   /\ player'.playback_state = player.playback_state
                   /\ handler'.stream_active = handler.stream_active
                   /\ handler'.events = handler.events
                   /\ obs'.clears = obs.clears]_vars

\* a stream_end for other roles has left an active, playing stream with its
\* queued chunks
C29_Witness ==
    /\ obs.last_roles = [present |-> TRUE, list |-> << "controller", "metadata" >>]
    /\ used.stream_ends = 1
    /\ used.stream_clears = 0
    /\ obs.clears = 1
    /\ player.queue # << >>
    /\ player.playback_state = PLAYING
    /\ handler.stream_active
    /\ handler.events = << "start" >>

\* C30: the input queue never holds more chunks than a fixed bound, whatever
\* the sequence of submit() calls, also while no callback consumes.
C30_QueueWithinBound ==
    Len(player.queue) <= QueueBound

\* C31: decode() never raises: when decoding or the conversion of a frame
\* fails with any exception, or no samples come out, it returns an empty
\* payload, and the decoder is as it was for the next frame.
C31_DecodeNeverRaises ==
    /\ decoder.last.raised = "none"
    /\ decoder.last.failed \/ decoder.last.frames = 0 => decoder.last.payload = << >>
    /\ decoder.decodes > 0 => decoder.channels \in DecoderChannels
                               /\ decoder.bit_depth \in DecoderBitDepths

\* C32: a callback consumes input only when the state is or becomes PLAYING:
\* one that runs while the state is INITIALIZING, or that ends in
\* WAITING_FOR_START, writes only zeros and leaves the queue, the chunk being
\* read and the server cursor as they were, whatever the queue holds.  The
\* steps taken are those of callbacks in which the state has not been
\* PLAYING at any point.
C32_ConsumesOnlyWhenPlaying ==
    [][ReadStep /\ \/ cb.pc = "idle" /\ player'.playback_state # PLAYING
                   \/ cb.pc = "output" /\ ~cb.played /\ player.playback_state # PLAYING
           => /\ player'.queue = player.queue
              /\ player'.current_chunk = player.current_chunk
              /\ player'.current_chunk_offset = player.current_chunk_offset
              /\ player'.server_ts_cursor_us = player.server_ts_cursor_us
              /\ player'.server_ts_cursor_remainder = player.server_ts_cursor_remainder
              /\ AllZero(cb'.out)]_vars

\* C33: however clear() on the event-loop thread falls into a callback in
\* progress, once both have finished and no chunk has been taken from the
\* queue since, the server cursor and its remainder are 0 and no chunk is
\* held, so that the next chunk read sets the cursor to its timestamp.
C33_ClearNotUndone ==
    cb.pc = "idle" /\ main.pc = "idle" /\ obs.clears > 0 /\ obs.load_clears # obs.clears
        => /\ player.server_ts_cursor_us = 0
           /\ player.server_ts_cursor_remainder = 0
           /\ player.current_chunk = NoChunk


\* the durations of the chunks of q, each floor(frames * 1e6 / sample_rate)
RECURSIVE QueueDurationUs(_, _, _)
QueueDurationUs(q, frame_size, sample_rate) ==
    IF q = << >> THEN 0
    ELSE FramesToUs(BLen(Head(q).audio_data) \div frame_size, sample_rate)
             + QueueDurationUs(Tail(q), frame_size, sample_rate)

\* the chunks the player holds: the queue and the chunk being read
HeldChunks(p) ==
    IF p.current_chunk = NoChunk THEN p.queue ELSE << p.current_chunk >> \o p.queue

\* C34: whenever neither submit() nor a callback is in progress, the
\* buffered-duration counter equals the sum of floor(frames * 1e6 / sample_rate)
\* over the chunks in the queue plus the chunk being read, and it is never
\* negative
C34_CounterMatchesHeldChunks ==
    /\ player.queued_duration_us >= 0
    /\ cb.pc = "idle" /\ main.pc = "idle"
           => player.queued_duration_us
                  = QueueDurationUs(HeldChunks(player), player.format_frame_size,
                                    player.format_sample_rate)


\* the events alternate "start", "stop", "start", ...
Alternates(events) ==
    \A i \in 1..Len(events) : events[i] = IF i % 2 = 1 THEN "start" ELSE "stop"

\* C35: over any sequence of stream_start, stream_end, stream_clear and
\* cleanup calls the lifecycle events passed to on_event strictly alternate
\* "start", "stop", "start", ... beginning with "start"; the stream is active
\* exactly after a "start"
C35_EventsAlternate ==
    /\ Alternates(handler.events)
    /\ handler.stream_active <=> Len(handler.events) % 2 = 1

\* a second "stop", fired by cleanup, after a stream_end fired the first
C35_Witness ==
    /\ Len(handler.events) >= 4
    /\ obs.cleanups > 0
    /\ used.stream_ends > 0

\* a step in which the handler builds a player
PlayerCreated ==
    /\ player'.format_sample_rate # 0
    /\ player'.format_sample_rate # player.format_sample_rate

\* C36: a player the handler creates or re-creates (first chunk, format
\* change, first chunk after cleanup) has the volume and mute of the most
\* recent set_volume call on the handler, or of the constructor if there was
\* none, calls made while no player existed included
C36_NewPlayerHasHandlerVolume ==
    [][PlayerCreated => /\ player'.volume = obs.last_volume_call[1]
                        /\ player'.muted = obs.last_volume_call[2]]_vars

\* a player re-created after cleanup, with a level set while there was none
C36_Witness ==
    /\ player.format_sample_rate # 0
    /\ obs.cleanups > 0
    /\ obs.idle_volume_call
    /\ obs.last_volume_call = << 50, TRUE >>
    /\ player.volume = 50 /\ player.muted


\* the time of the first of the updates, the one being made included, that
\* have differed from the committed signal without one in between that agreed
DifferingSince == IF obs.differ_since # None THEN obs.differ_since ELSE now

\* C37: update() sends a STARTED or STOPPED command only after the raw
\* signal has differed from the last committed signal in every update for at
\* least the hold interval; an update whose raw signal is the committed one
\* cancels the pending candidate
C37_CommandOnlyAfterHold ==
    [][reporter.constructed /\ reporter'.commands_sent > reporter.commands_sent
           => now - DifferingSince >= reporter.hold_us]_vars

====
